---- MODULE Spec2Model ----
(***************************************************************************)
(* The relay ("API proxy") endpoint of the application: the route action   *)
(* that forwards one outbound HTTP call on behalf of the browser and wraps *)
(* the outcome in an envelope.  One inbound request is followed through    *)
(* the await points of the action: authenticate.admin, request.json(),     *)
(* fetch(), response.text().                                               *)
(***************************************************************************)
EXTENDS Integers, Sequences, FiniteSets, TLC

VARIABLES
    request,       \* the inbound HTTP request: [method, body]
    pc,            \* the await point the action is suspended at, or how it ended
    session,       \* const { session } = await authenticate.admin(request)
    requestBody,   \* const requestBody = await request.json()
    enhancedData,  \* const enhancedData = {...data, shopDomain, accessToken}
    fetchCalls,    \* every fetch(endpoint, fetchOptions) issued, in order
    response,      \* const response = await fetch(...)
    responseText,  \* const responseText = await response.text()
    error,         \* the exception the catch block received
    result,        \* what the action returned (json(body, {status})) or threw
    clientCall,    \* the browser's call of proxyRequest or of a wrapper
    clientPc,      \* the await point proxyRequest is suspended at, or how it ended
    proxyFetches,  \* every fetch("/api/proxy", ...) the browser issued, in order
    relayResponse, \* const response = await fetch("/api/proxy", ...)
    outcome,       \* what proxyRequest returned or threw
    peer,          \* the locals of a second invocation of the action in flight
    db,            \* the process as db.server sees it: global.prisma, the exports
    article,       \* the locals of the article-creation action (app.articles.new)
    diagnostics,   \* the locals of the template-diagnostics action
    form,          \* the state of the blog-post form (app.blog-posts.new)
    index          \* the locals of the case-studies index loader

\* the browser side
clientVars == <<clientCall, clientPc, proxyFetches, relayResponse, outcome>>

\* the other routes and modules of the application
rest == <<db, article, diagnostics, form, index>>

\* what a step of the first invocation of the action cannot touch
beyond == <<clientVars, peer, rest>>

vars == <<request, pc, session, requestBody, enhancedData, fetchCalls,
          response, responseText, error, result, clientVars, peer, rest>>

----------------------------------------------------------------------------
(* JavaScript values.  A string written in the source is Str("..."); a     *)
(* string made of body characters is Text(<<c1, ..., cn>>).                *)

Undefined == [t |-> "undefined"]
Null == [t |-> "null"]
Bool(b) == [t |-> "bool", v |-> b]
Num(n) == [t |-> "num", v |-> n]
Str(s) == [t |-> "str", v |-> s]
Text(cs) == [t |-> "text", v |-> cs]
Arr(xs) == [t |-> "arr", v |-> xs]
Obj(f) == [t |-> "obj", v |-> f]

EmptyProps == [k \in {} |-> Undefined]

\* ToBoolean, as applied by `!x` and `a && b`
Truthy(x) ==
    CASE x.t = "undefined" -> FALSE
      [] x.t = "null" -> FALSE
      [] x.t = "bool" -> x.v
      [] x.t = "num" -> x.v # 0
      [] x.t = "str" -> x.v # ""
      [] x.t = "text" -> Len(x.v) > 0
      [] OTHER -> TRUE

\* x.k (x neither null nor undefined): an own property, else undefined
Get(x, k) ==
    IF x.t = "obj" /\ k \in DOMAIN x.v THEN x.v[k] ELSE Undefined

\* the own enumerable properties that `...x` copies into an object literal
OwnProps(x) ==
    CASE x.t = "obj" -> x.v
      [] x.t = "arr" -> [k \in {ToString(i - 1) : i \in 1..Len(x.v)} |->
                            x.v[CHOOSE i \in 1..Len(x.v) : ToString(i - 1) = k]]
      [] x.t = "text" -> [k \in {ToString(i - 1) : i \in 1..Len(x.v)} |->
                            Text(<<x.v[CHOOSE i \in 1..Len(x.v) : ToString(i - 1) = k]>>)]
      [] OTHER -> EmptyProps

\* {...f, ...g}: the later spread wins
Spread(f, g) ==
    [k \in DOMAIN f \cup DOMAIN g |-> IF k \in DOMAIN g THEN g[k] ELSE f[k]]

----------------------------------------------------------------------------
(* Strings read from the network are sequences of characters.              *)

\* String.prototype.substring(0, n)
Substring(cs, n) == SubSeq(cs, 1, IF Len(cs) < n THEN Len(cs) ELSE n)

\* the characters JSON.parse skips between tokens
JsonWhitespace == {" ", "\n", "\t", "\r"}

\* the characters String.prototype.trim removes ("nbsp" is U+00A0)
TrimWhitespace == JsonWhitespace \cup {"nbsp"}

Trim(cs) ==
    IF \A i \in 1..Len(cs) : cs[i] \in TrimWhitespace
    THEN <<>>
    ELSE LET first == CHOOSE i \in 1..Len(cs) :
                          /\ cs[i] \notin TrimWhitespace
                          /\ \A j \in 1..(i - 1) : cs[j] \in TrimWhitespace
             last == CHOOSE i \in 1..Len(cs) :
                          /\ cs[i] \notin TrimWhitespace
                          /\ \A j \in (i + 1)..Len(cs) : cs[j] \in TrimWhitespace
         IN  SubSeq(cs, first, last)

\* property names the application reads, spelled out as characters
Lexicon ==
    [error |-> <<"e", "r", "r", "o", "r">>,
     errors |-> <<"e", "r", "r", "o", "r", "s">>,
     message |-> <<"m", "e", "s", "s", "a", "g", "e">>,
     success |-> <<"s", "u", "c", "c", "e", "s", "s">>,
     id |-> <<"i", "d">>,
     warning |-> <<"w", "a", "r", "n", "i", "n", "g">>,
     templatePath |-> <<"t", "e", "m", "p", "l", "a", "t", "e", "P", "a", "t", "h">>,
     templateFormat |-> <<"t", "e", "m", "p", "l", "a", "t", "e", "F", "o", "r", "m", "a", "t">>,
     resetForm |-> <<"r", "e", "s", "e", "t", "F", "o", "r", "m">>,
     php_version |-> <<"p", "h", "p", "_", "v", "e", "r", "s", "i", "o", "n">>,
     time |-> <<"t", "i", "m", "e">>,
     a |-> <<"a">>]

\* the property name a parsed key denotes
KeyOf(cs) ==
    IF \E w \in DOMAIN Lexicon : Lexicon[w] = cs
    THEN CHOOSE w \in DOMAIN Lexicon : Lexicon[w] = cs
    ELSE ToString(cs)

Digits == <<"0", "1", "2", "3", "4", "5", "6", "7", "8", "9">>

IsDigit(c) == \E d \in 1..Len(Digits) : Digits[d] = c

DigitValue(c) == (CHOOSE d \in 1..Len(Digits) : Digits[d] = c) - 1

\* index of the first character at or after i that JSON.parse does not skip
SkipWs(cs, i) ==
    IF \E j \in i..Len(cs) : cs[j] \notin JsonWhitespace
    THEN CHOOSE j \in i..Len(cs) :
             /\ cs[j] \notin JsonWhitespace
             /\ \A k \in i..(j - 1) : cs[k] \in JsonWhitespace
    ELSE Len(cs) + 1

SyntaxError == [ok |-> FALSE]

Parsed(val, next) == [ok |-> TRUE, val |-> val, next |-> next]

\* a keyword (null, true, false) at i
ParseLiteral(cs, i, word, val) ==
    IF i + Len(word) - 1 <= Len(cs) /\ SubSeq(cs, i, i + Len(word) - 1) = word
    THEN Parsed(val, i + Len(word))
    ELSE SyntaxError

\* "..." at i: no escapes, no control characters inside
ParseString(cs, i) ==
    IF \E j \in (i + 1)..Len(cs) : cs[j] = "\""
    THEN LET close == CHOOSE j \in (i + 1)..Len(cs) :
                          /\ cs[j] = "\""
                          /\ \A k \in (i + 1)..(j - 1) : cs[k] # "\""
         IN  IF \E k \in (i + 1)..(close - 1) : cs[k] \in {"\n", "\t", "\r", "\\"}
             THEN SyntaxError
             ELSE Parsed(Text(SubSeq(cs, i + 1, close - 1)), close + 1)
    ELSE SyntaxError

RECURSIVE DecimalValue(_, _, _)
DecimalValue(cs, from, to) ==
    IF to < from THEN 0
    ELSE 10 * DecimalValue(cs, from, to - 1) + DigitValue(cs[to])

\* -? ( 0 | [1-9][0-9]* ) at i
ParseNumber(cs, i) ==
    LET neg == cs[i] = "-"
        d == IF neg THEN i + 1 ELSE i
    IN  IF d > Len(cs) \/ ~IsDigit(cs[d]) THEN SyntaxError
        ELSE LET end == IF cs[d] = "0" THEN d
                        ELSE CHOOSE e \in d..Len(cs) :
                                 /\ \A k \in d..e : IsDigit(cs[k])
                                 /\ (e = Len(cs) \/ ~IsDigit(cs[e + 1]))
                 n == DecimalValue(cs, d, end)
             IN  Parsed(Num(IF neg THEN 0 - n ELSE n), end + 1)

RECURSIVE ParseValue(_, _), ParseElements(_, _, _), ParseMembers(_, _, _)

ParseValue(cs, from) ==
    LET i == SkipWs(cs, from)
    IN  IF i > Len(cs) THEN SyntaxError
        ELSE CASE cs[i] = "{" ->
                    LET j == SkipWs(cs, i + 1)
                    IN  IF j <= Len(cs) /\ cs[j] = "}"
                        THEN Parsed(Obj(EmptyProps), j + 1)
                        ELSE ParseMembers(cs, j, EmptyProps)
               [] cs[i] = "[" ->
                    LET j == SkipWs(cs, i + 1)
                    IN  IF j <= Len(cs) /\ cs[j] = "]"
                        THEN Parsed(Arr(<<>>), j + 1)
                        ELSE ParseElements(cs, j, <<>>)
               [] cs[i] = "\"" -> ParseString(cs, i)
               [] cs[i] = "-" \/ IsDigit(cs[i]) -> ParseNumber(cs, i)
               [] cs[i] = "n" -> ParseLiteral(cs, i, <<"n", "u", "l", "l">>, Null)
               [] cs[i] = "t" -> ParseLiteral(cs, i, <<"t", "r", "u", "e">>, Bool(TRUE))
               [] cs[i] = "f" ->
                    ParseLiteral(cs, i, <<"f", "a", "l", "s", "e">>, Bool(FALSE))
               [] OTHER -> SyntaxError

\* value ( , value )* ] with the elements before `from` in acc
ParseElements(cs, from, acc) ==
    LET r == ParseValue(cs, from)
    IN  IF ~r.ok THEN SyntaxError
        ELSE LET j == SkipWs(cs, r.next)
             IN  IF j > Len(cs) THEN SyntaxError
                 ELSE IF cs[j] = "," THEN ParseElements(cs, j + 1, Append(acc, r.val))
                 ELSE IF cs[j] = "]" THEN Parsed(Arr(Append(acc, r.val)), j + 1)
                 ELSE SyntaxError

\* string : value ( , string : value )* } with the members before `from` in acc
ParseMembers(cs, from, acc) ==
    LET k == SkipWs(cs, from)
    IN  IF k > Len(cs) \/ cs[k] # "\"" THEN SyntaxError
        ELSE LET key == ParseString(cs, k)
             IN  IF ~key.ok THEN SyntaxError
                 ELSE LET c == SkipWs(cs, key.next)
                      IN  IF c > Len(cs) \/ cs[c] # ":" THEN SyntaxError
                          ELSE LET r == ParseValue(cs, c + 1)
                               IN  IF ~r.ok THEN SyntaxError
                                   ELSE LET j == SkipWs(cs, r.next)
                                            members == Spread(acc, KeyOf(key.val.v) :> r.val)
                                        IN  IF j > Len(cs) THEN SyntaxError
                                            ELSE IF cs[j] = ","
                                            THEN ParseMembers(cs, j + 1, members)
                                            ELSE IF cs[j] = "}"
                                            THEN Parsed(Obj(members), j + 1)
                                            ELSE SyntaxError

\* JSON.parse(text): the value, or a SyntaxError is thrown
JSONparse(cs) ==
    LET r == ParseValue(cs, 1)
    IN  IF r.ok /\ SkipWs(cs, r.next) > Len(cs)
        THEN [ok |-> TRUE, val |-> r.val]
        ELSE SyntaxError

----------------------------------------------------------------------------
(* The synchronous pieces of the action.                                   *)

\* a template literal `${a}${b}...`
Template(parts) == [t |-> "template", v |-> parts]

\* json(body, { status })
Json(body, status) == [kind |-> "response", status |-> status, body |-> body]

\* an exception that leaves the action
Thrown(e) == [kind |-> "thrown", error |-> e]

\* JSON.stringify(x), kept as the value it serializes
JSONstringify(x) == [t |-> "json", v |-> x]

\* MethodNotAllowed answered as a bad request
MethodNotAllowedAsBadRequest ==
    Json(Obj([success |-> Bool(FALSE), error |-> Str("Method not allowed")]), 400)

\* the answer to a method other than POST
MethodNotAllowed ==
    Json(Obj([success |-> Bool(FALSE), error |-> Str("Method not allowed")]), 405)

MissingParametersMessage ==
    Str("Missing required parameters. Please provide 'endpoint' and 'method'.")

MissingParametersResponse ==
    Json(Obj([success |-> Bool(FALSE), error |-> MissingParametersMessage]), 400)

\* MissingParameters without the check of `method`
MissingParametersNoMethod(rb) ==
    \/ ~Truthy(rb)
    \/ ~Truthy(Get(rb, "endpoint"))

\* !requestBody || !requestBody.endpoint || !requestBody.method
MissingParameters(rb) ==
    \/ ~Truthy(rb)
    \/ ~Truthy(Get(rb, "endpoint"))
    \/ ~Truthy(Get(rb, "method"))

\* EnhancedData in which data is spread last and so wins
EnhancedDataCallerWins(data, sess) ==
    Obj(Spread([shopDomain |-> Str(sess.shop), accessToken |-> Str(sess.accessToken)],
               OwnProps(data)))

\* { ...data, shopDomain: session.shop, accessToken: session.accessToken }
EnhancedData(data, sess) ==
    Obj(Spread(OwnProps(data),
               [shopDomain |-> Str(sess.shop), accessToken |-> Str(sess.accessToken)]))

\* headers: customHeaders = {} in the destructuring pattern
CustomHeaders(rb) ==
    IF Get(rb, "headers") = Undefined THEN Obj(EmptyProps) ELSE Get(rb, "headers")

\* Headers in which the default is spread last and so wins
HeadersDefaultLast(customHeaders) ==
    Obj(Spread(OwnProps(customHeaders), "Content-Type" :> Str("application/json")))

\* { "Content-Type": "application/json", ...customHeaders }
Headers(customHeaders) ==
    Obj(Spread("Content-Type" :> Str("application/json"), OwnProps(customHeaders)))

\* FetchOptions with the body attached whatever the method
FetchOptionsAlwaysBody(method, headers, enhanced) ==
    [method |-> method, headers |-> headers, body |-> JSONstringify(enhanced)]

\* fetchOptions, with body only when method !== "GET"
FetchOptions(method, headers, enhanced) ==
    IF method # Str("GET")
    THEN [method |-> method, headers |-> headers, body |-> JSONstringify(enhanced)]
    ELSE [method |-> method, headers |-> headers]

\* the call fetch(endpoint, fetchOptions) the action makes for requestBody rb
FetchCall(rb, sess) ==
    [endpoint |-> Get(rb, "endpoint"),
     options |-> FetchOptions(Get(rb, "method"), Headers(CustomHeaders(rb)),
                              EnhancedData(Get(rb, "data"), sess))]

\* fetch normalizes these method names, in whatever case, to upper case
NormalizedNames ==
    [get |-> "GET", head |-> "HEAD", post |-> "POST", put |-> "PUT",
     delete |-> "DELETE", options |-> "OPTIONS"]

NormalizedMethod(method) ==
    IF method.t = "str" /\ method.v \in DOMAIN NormalizedNames
    THEN Str(NormalizedNames[method.v])
    ELSE method

\* fetch throws a TypeError before anything is sent: a GET or HEAD with a body
FetchMustReject(call) ==
    /\ NormalizedMethod(call.options.method) \in {Str("GET"), Str("HEAD")}
    /\ "body" \in DOMAIN call.options

\* ResponseOk that takes every status below 400 as a success
ResponseOkBelow400(status) == status < 400

\* response.ok
ResponseOk(status) == status \in 200..299

RawResponseLimit == 1000

EmptyResponse == Obj([message |-> Str("Empty response")])

\* NonJsonResponse cut like the console.log line next to it
NonJsonResponseAsLogged(text) ==
    Obj([message |-> Str("Non-JSON response"), rawResponse |-> Text(Substring(text, 500))])

\* NonJsonResponse that keeps the trimmed text
NonJsonResponseTrimmed(text) ==
    Obj([message |-> Str("Non-JSON response"),
         rawResponse |-> Text(Substring(Trim(text), RawResponseLimit))])

\* the data of a body that is not blank and does not parse
NonJsonResponse(text) ==
    Obj([message |-> Str("Non-JSON response"),
         rawResponse |-> Text(Substring(text, RawResponseLimit))])

\* ResponseData that tests the parsed value instead of the text
ResponseDataFalsyIsEmpty(text) ==
    IF JSONparse(text).ok
    THEN IF Truthy(JSONparse(text).val) THEN JSONparse(text).val ELSE EmptyResponse
    ELSE IF Len(Trim(text)) > 0 THEN NonJsonResponse(text) ELSE EmptyResponse

\* responseData after the inner try/catch
ResponseData(text) ==
    IF Len(text) > 0 /\ Len(Trim(text)) > 0
    THEN IF JSONparse(text).ok THEN JSONparse(text).val ELSE NonJsonResponse(text)
    ELSE EmptyResponse

\* EnvelopeResponse answering with the outbound status as its own
EnvelopeResponseMirrored(resp, text) ==
    Json(Obj([success |-> Bool(ResponseOk(resp.status)),
              data |-> ResponseData(text),
              status |-> Num(resp.status),
              statusText |-> Str(resp.statusText)]), resp.status)

\* EnvelopeResponse without the inner try/catch around JSON.parse
EnvelopeResponseParseThrows(resp, text) ==
    IF Len(Trim(text)) > 0 /\ ~JSONparse(text).ok
    THEN Json(Obj([success |-> Bool(FALSE),
                   error |-> Template(<<"Proxy error: ", "Unexpected token">>)]), 500)
    ELSE Json(Obj([success |-> Bool(ResponseOk(resp.status)),
                   data |-> ResponseData(text),
                   status |-> Num(resp.status),
                   statusText |-> Str(resp.statusText)]), 200)

\* the envelope returned once the outbound body was read
EnvelopeResponse(resp, text) ==
    Json(Obj([success |-> Bool(ResponseOk(resp.status)),
              data |-> ResponseData(text),
              status |-> Num(resp.status),
              statusText |-> Str(resp.statusText)]), 200)

\* the catch block answering with a fixed message
ProxyErrorResponseGeneric(e) ==
    Json(Obj([success |-> Bool(FALSE), error |-> Str("Proxy error")]), 500)

\* the outer catch block
ProxyErrorResponse(e) ==
    Json(Obj([success |-> Bool(FALSE),
              error |-> Template(<<"Proxy error: ", e.message>>)]), 500)

----------------------------------------------------------------------------
(* What the environment can hand to the action.                            *)

Sessions ==
    {[shop |-> "alpha.myshopify.com", accessToken |-> "shpat_alpha"],
     [shop |-> "beta.myshopify.com", accessToken |-> "shpat_beta"]}

\* the HTTP methods the framework routes to an action
ActionMethods == {"POST", "PUT", "DELETE"}

Field(k, v) == IF v = Undefined THEN EmptyProps ELSE k :> v

RelayRequest(endpoint, method, data, headers) ==
    Obj(Field("endpoint", endpoint) @@ Field("method", method)
        @@ Field("data", data) @@ Field("headers", headers))

EndpointValues ==
    {Undefined, Str(""), Str("https://php.example/save"), Str("https://php.example/test")}

MethodValues ==
    {Undefined, Str(""), Str("GET"), Str("POST"), Str("PUT"), Str("DELETE"),
     Str("get"), Str("PATCH")}

DataValues ==
    {Undefined, Null, Obj(EmptyProps), Obj([title |-> Str("Case A")]),
     Obj([title |-> Str("Case B"), shopDomain |-> Str("evil.myshopify.com"),
          accessToken |-> Str("shpat_forged")]),
     Arr(<<Num(1)>>), Text(<<"h", "i">>)}

HeaderValues ==
    {Undefined, Null, Obj(EmptyProps), Obj("X-Api-Key" :> Str("k1")),
     Obj("Content-Type" :> Str("text/plain")),
     Obj("content-type" :> Str("text/plain"))}

\* an inbound body: JSON text (given by the value it parses to), text that
\* does not parse, or a stream that breaks while it is read
JsonBody(value) == [kind |-> "json", value |-> value]
MalformedBody == [kind |-> "malformed"]
AbortedBody == [kind |-> "aborted"]

RequestBodies ==
    {MalformedBody, AbortedBody, JsonBody(Null), JsonBody(Num(5)), JsonBody(Num(0))}
    \cup {JsonBody(RelayRequest(e, m, d, h)) :
            e \in EndpointValues, m \in MethodValues, d \in DataValues, h \in HeaderValues}

Requests == [method : ActionMethods, body : RequestBodies]

SampleRequests ==
    [method : {"POST", "PUT"},
     body : {MalformedBody, AbortedBody,
             JsonBody(RelayRequest(Str("https://php.example/save"), Undefined,
                                   Undefined, Undefined)),
             JsonBody(RelayRequest(Str("https://php.example/save"), Str("POST"),
                                   Obj([title |-> Str("Case A")]), Undefined)),
             JsonBody(RelayRequest(Str("https://php.example/test"), Str("GET"),
                                   Undefined, Undefined))}]

Responses ==
    {[status |-> 200, statusText |-> "OK"],
     [status |-> 201, statusText |-> "Created"],
     [status |-> 204, statusText |-> "No Content"],
     [status |-> 299, statusText |-> ""],
     [status |-> 300, statusText |-> "Multiple Choices"],
     [status |-> 404, statusText |-> "Not Found"],
     [status |-> 500, statusText |-> "Internal Server Error"]}

TransportErrors == {[message |-> "fetch failed"], [message |-> "Invalid URL"]}

MaxBodyLen == 3

BodyChars == {" ", "0", "7", "[", "]", ",", "\"", "a"}

ShortTexts == UNION {[1..n -> BodyChars] : n \in 0..MaxBodyLen}

Repeat(c, n) == [i \in 1..n |-> c]

LongTexts ==
    {Repeat("a", RawResponseLimit - 1), Repeat("a", RawResponseLimit),
     Repeat("a", RawResponseLimit + 1),
     <<"[">> \o Repeat("0", RawResponseLimit + 1)}

SampleTexts ==
    {<<>>, <<" ", "\n">>, <<"nbsp">>, <<"nbsp", "0">>,
     <<"n", "u", "l", "l">>, <<"f", "a", "l", "s", "e">>, <<"t", "r", "u", "e">>,
     <<"0">>, <<"-", "7">>, <<"\"", "\"">>, <<"[", "1", ",", "2", "]">>, <<"{", "}">>,
     <<"{", "\"", "e", "r", "r", "o", "r", "\"", ":", "\"", "a", "\"", "}">>,
     <<"{", "\"", "s", "u", "c", "c", "e", "s", "s", "\"", ":", "t", "r", "u", "e", ",",
       "\"", "e", "r", "r", "o", "r", "\"", ":", "n", "u", "l", "l", "}">>,
     <<"{", "\"", "i", "d", "\"", ":", "7", "}">>,
     <<"<", "h", "t", "m", "l", ">">>,
     <<"{", "\"", "i", "d", "\"", ":", "7">>}

BodyTexts == ShortTexts \cup SampleTexts \cup LongTexts

----------------------------------------------------------------------------
(* The action, one step per stretch of code between two awaits.            *)

NoResult == [kind |-> "none"]
NoResponse == [status |-> 0, statusText |-> ""]
NoError == [at |-> "", message |-> ""]

\* no browser call, no second invocation
NoCall == [fn |-> "none"]
NoRelayResponse == [status |-> 0, body |-> Undefined]
NoOutcome == [kind |-> "none"]
NoPeer == [pc |-> "none"]

\* a route or module that is not running
NotRunning == [pc |-> "none"]

RestIdle ==
    /\ db = NotRunning
    /\ article = NotRunning
    /\ diagnostics = NotRunning
    /\ form = NotRunning
    /\ index = NotRunning

InitOver(requests) ==
    /\ request \in requests
    /\ pc = "authenticate"
    /\ session = [shop |-> "", accessToken |-> ""]
    /\ requestBody = Undefined
    /\ enhancedData = Undefined
    /\ fetchCalls = <<>>
    /\ response = NoResponse
    /\ responseText = <<>>
    /\ error = NoError
    /\ result = NoResult
    /\ clientCall = NoCall
    /\ clientPc = "none"
    /\ proxyFetches = <<>>
    /\ relayResponse = NoRelayResponse
    /\ outcome = NoOutcome
    /\ peer = NoPeer
    /\ RestIdle

\* AuthenticateRejects as if the call stood inside the try block
AuthenticateRejectsCaught ==
    /\ pc = "authenticate"
    /\ error' = [at |-> "authenticate", message |-> "Unauthorized"]
    /\ result' = ProxyErrorResponse(error')
    /\ pc' = "returned"
    /\ UNCHANGED <<request, session, requestBody, enhancedData, fetchCalls,
                   response, responseText>>
    /\ UNCHANGED beyond

\* authenticate.admin(request) throws: the exception leaves the action
AuthenticateRejects ==
    /\ pc = "authenticate"
    /\ pc' = "thrown"
    /\ result' = Thrown("authenticate.admin")
    /\ UNCHANGED <<request, session, requestBody, enhancedData, fetchCalls,
                   response, responseText, error>>
    /\ UNCHANGED beyond

\* AuthenticateResolves without the method check
AuthenticateResolvesAnyMethod ==
    /\ pc = "authenticate"
    /\ \E s \in Sessions : session' = s
    /\ pc' = "request.json"
    /\ UNCHANGED <<request, requestBody, enhancedData, fetchCalls, response,
                   responseText, error, result>>
    /\ UNCHANGED beyond

\* authenticate.admin(request) resolves; the method check; request.json() starts
AuthenticateResolves ==
    /\ pc = "authenticate"
    /\ \E s \in Sessions : session' = s
    /\ IF request.method # "POST"
       THEN /\ result' = MethodNotAllowed
            /\ pc' = "returned"
       ELSE /\ result' = result
            /\ pc' = "request.json"
    /\ UNCHANGED <<request, requestBody, enhancedData, fetchCalls, response,
                   responseText, error>>
    /\ UNCHANGED beyond

\* request.json() throws (a SyntaxError, or the stream broke): the catch block
RequestJsonRejects ==
    /\ pc = "request.json"
    /\ request.body.kind # "json"
    /\ error' = [at |-> "request.json",
                 message |-> IF request.body.kind = "malformed"
                             THEN "Unexpected token" ELSE "aborted"]
    /\ result' = ProxyErrorResponse(error')
    /\ pc' = "returned"
    /\ UNCHANGED <<request, session, requestBody, enhancedData, fetchCalls,
                   response, responseText>>
    /\ UNCHANGED beyond

\* request.json() resolves; validation; enrichment; fetch() starts
RequestJsonResolves ==
    /\ pc = "request.json"
    /\ request.body.kind = "json"
    /\ requestBody' = request.body.value
    /\ IF MissingParameters(requestBody')
       THEN /\ result' = MissingParametersResponse
            /\ pc' = "returned"
            /\ UNCHANGED <<enhancedData, fetchCalls>>
       ELSE /\ enhancedData' = EnhancedData(Get(requestBody', "data"), session)
            /\ fetchCalls' = Append(fetchCalls, FetchCall(requestBody', session))
            /\ pc' = "fetch"
            /\ result' = result
    /\ UNCHANGED <<request, session, response, responseText, error>>
    /\ UNCHANGED beyond

\* FetchRejects that tries the call once more before giving up
FetchRejectsRetry ==
    /\ pc = "fetch"
    /\ Len(fetchCalls) < 2
    /\ fetchCalls' = Append(fetchCalls, fetchCalls[1])
    /\ UNCHANGED <<request, pc, session, requestBody, enhancedData, response,
                   responseText, error, result>>
    /\ UNCHANGED beyond

\* fetch() rejects (the call is refused, or the network fails): the catch block
FetchRejects ==
    /\ pc = "fetch"
    /\ IF FetchMustReject(fetchCalls[1])
       THEN error' = [at |-> "fetch",
                      message |-> "Request with GET/HEAD method cannot have body."]
       ELSE \E e \in TransportErrors : error' = [at |-> "fetch", message |-> e.message]
    /\ result' = ProxyErrorResponse(error')
    /\ pc' = "returned"
    /\ UNCHANGED <<request, session, requestBody, enhancedData, fetchCalls,
                   response, responseText>>
    /\ UNCHANGED beyond

\* fetch() resolves with a response; response.text() starts
FetchResolves ==
    /\ pc = "fetch"
    /\ ~FetchMustReject(fetchCalls[1])
    /\ response' \in Responses
    /\ pc' = "response.text"
    /\ UNCHANGED <<request, session, requestBody, enhancedData, fetchCalls,
                   responseText, error, result>>
    /\ UNCHANGED beyond

\* ResponseTextRejects that goes back to the fetch instead of answering
ResponseTextRejectsFetchesAgain ==
    /\ pc = "response.text"
    /\ pc' = "fetch"
    /\ UNCHANGED <<request, session, requestBody, enhancedData, fetchCalls,
                   response, responseText, error, result>>
    /\ UNCHANGED beyond

\* response.text() rejects (the connection broke mid-body): the catch block
ResponseTextRejects ==
    /\ pc = "response.text"
    /\ error' = [at |-> "response.text", message |-> "terminated"]
    /\ result' = ProxyErrorResponse(error')
    /\ pc' = "returned"
    /\ UNCHANGED <<request, session, requestBody, enhancedData, fetchCalls,
                   response, responseText>>
    /\ UNCHANGED beyond

\* response.text() resolves; the body is classified; the envelope is returned
ResponseTextResolves(texts) ==
    /\ pc = "response.text"
    /\ responseText' \in texts
    /\ result' = EnvelopeResponse(response, responseText')
    /\ pc' = "returned"
    /\ UNCHANGED <<request, session, requestBody, enhancedData, fetchCalls,
                   response, error>>
    /\ UNCHANGED beyond

NextOver(texts) ==
    \/ AuthenticateRejects
    \/ AuthenticateResolves
    \/ RequestJsonRejects
    \/ RequestJsonResolves
    \/ FetchRejects
    \/ FetchResolves
    \/ ResponseTextRejects
    \/ ResponseTextResolves(texts)

\* every relay request, a sample of outbound bodies
Spec == InitOver(Requests) /\ [][NextOver(SampleTexts)]_vars

\* a sample of relay requests, every outbound body
SpecBody == InitOver(SampleRequests) /\ [][NextOver(BodyTexts)]_vars

\* each awaited step of the action eventually resolves or rejects
AwaitsSettle ==
    /\ WF_vars(AuthenticateRejects \/ AuthenticateResolves)
    /\ WF_vars(RequestJsonRejects \/ RequestJsonResolves)
    /\ WF_vars(FetchRejects \/ FetchResolves)
    /\ WF_vars(ResponseTextRejects \/ ResponseTextResolves(SampleTexts))

\* the sampled requests, none of whose awaited steps hangs for ever
SpecLive ==
    InitOver(SampleRequests) /\ [][NextOver(SampleTexts)]_vars /\ AwaitsSettle

----------------------------------------------------------------------------
(* Two invocations of the action in flight at once.  The locals of the     *)
(* second one are the fields of peer; the module has no state of its own,  *)
(* so a step of one invocation reads and writes its own locals only.       *)

ConcurrentRequests ==
    [method : {"POST"},
     body : {MalformedBody,
             JsonBody(RelayRequest(Str("https://php.example/save"), Undefined,
                                   Undefined, Undefined)),
             JsonBody(RelayRequest(Str("https://php.example/list"), Str("GET"),
                                   Undefined, Undefined)),
             JsonBody(RelayRequest(Str("https://php.example/save"), Str("POST"),
                                   Obj([title |-> Str("Case A")]), Undefined))}]

ConcurrentTexts == {<<>>, <<"7">>}

InitConcurrent ==
    /\ request \in ConcurrentRequests
    /\ pc = "authenticate"
    /\ session = [shop |-> "", accessToken |-> ""]
    /\ requestBody = Undefined
    /\ enhancedData = Undefined
    /\ fetchCalls = <<>>
    /\ response = NoResponse
    /\ responseText = <<>>
    /\ error = NoError
    /\ result = NoResult
    /\ clientCall = NoCall
    /\ clientPc = "none"
    /\ proxyFetches = <<>>
    /\ relayResponse = NoRelayResponse
    /\ outcome = NoOutcome
    /\ \E r \in ConcurrentRequests :
         peer = [pc |-> "authenticate",
                 request |-> r,
                 session |-> [shop |-> "", accessToken |-> ""],
                 requestBody |-> Undefined,
                 enhancedData |-> Undefined,
                 fetchCalls |-> <<>>,
                 response |-> NoResponse,
                 responseText |-> <<>>,
                 error |-> NoError,
                 result |-> NoResult]
    /\ RestIdle

\* what a step of the second invocation cannot touch
first == <<request, pc, session, requestBody, enhancedData, fetchCalls,
           response, responseText, error, result, clientVars, rest>>

PeerAuthenticateRejects ==
    /\ peer.pc = "authenticate"
    /\ peer' = [peer EXCEPT !.pc = "thrown", !.result = Thrown("authenticate.admin")]
    /\ UNCHANGED first

PeerAuthenticateResolves ==
    /\ peer.pc = "authenticate"
    /\ \E s \in Sessions :
         peer' = IF peer.request.method # "POST"
                 THEN [peer EXCEPT !.session = s, !.result = MethodNotAllowed,
                                   !.pc = "returned"]
                 ELSE [peer EXCEPT !.session = s, !.pc = "request.json"]
    /\ UNCHANGED first

PeerRequestJsonRejects ==
    /\ peer.pc = "request.json"
    /\ peer.request.body.kind # "json"
    /\ LET e == [at |-> "request.json",
                 message |-> IF peer.request.body.kind = "malformed"
                             THEN "Unexpected token" ELSE "aborted"]
       IN  peer' = [peer EXCEPT !.error = e, !.result = ProxyErrorResponse(e),
                                !.pc = "returned"]
    /\ UNCHANGED first

\* PeerRequestJsonResolves that enriches with a session kept in module state,
\* which the invocation that authenticated last has written
PeerRequestJsonResolvesSharedSession ==
    /\ peer.pc = "request.json"
    /\ peer.request.body.kind = "json"
    /\ LET rb == peer.request.body.value
       IN  peer' = IF MissingParameters(rb)
                   THEN [peer EXCEPT !.requestBody = rb,
                                     !.result = MissingParametersResponse,
                                     !.pc = "returned"]
                   ELSE [peer EXCEPT !.requestBody = rb,
                                     !.enhancedData =
                                        EnhancedData(Get(rb, "data"), session),
                                     !.fetchCalls =
                                        Append(peer.fetchCalls, FetchCall(rb, session)),
                                     !.pc = "fetch"]
    /\ UNCHANGED first

PeerRequestJsonResolves ==
    /\ peer.pc = "request.json"
    /\ peer.request.body.kind = "json"
    /\ LET rb == peer.request.body.value
       IN  peer' = IF MissingParameters(rb)
                   THEN [peer EXCEPT !.requestBody = rb,
                                     !.result = MissingParametersResponse,
                                     !.pc = "returned"]
                   ELSE [peer EXCEPT !.requestBody = rb,
                                     !.enhancedData =
                                        EnhancedData(Get(rb, "data"), peer.session),
                                     !.fetchCalls =
                                        Append(peer.fetchCalls,
                                               FetchCall(rb, peer.session)),
                                     !.pc = "fetch"]
    /\ UNCHANGED first

PeerFetchRejects ==
    /\ peer.pc = "fetch"
    /\ \E m \in IF FetchMustReject(peer.fetchCalls[1])
                THEN {"Request with GET/HEAD method cannot have body."}
                ELSE {e.message : e \in TransportErrors} :
         LET e == [at |-> "fetch", message |-> m]
         IN  peer' = [peer EXCEPT !.error = e, !.result = ProxyErrorResponse(e),
                                  !.pc = "returned"]
    /\ UNCHANGED first

PeerFetchResolves ==
    /\ peer.pc = "fetch"
    /\ ~FetchMustReject(peer.fetchCalls[1])
    /\ \E r \in Responses : peer' = [peer EXCEPT !.response = r, !.pc = "response.text"]
    /\ UNCHANGED first

PeerResponseTextRejects ==
    /\ peer.pc = "response.text"
    /\ LET e == [at |-> "response.text", message |-> "terminated"]
       IN  peer' = [peer EXCEPT !.error = e, !.result = ProxyErrorResponse(e),
                                !.pc = "returned"]
    /\ UNCHANGED first

PeerResponseTextResolves(texts) ==
    /\ peer.pc = "response.text"
    /\ \E text \in texts :
         peer' = [peer EXCEPT !.responseText = text,
                              !.result = EnvelopeResponse(peer.response, text),
                              !.pc = "returned"]
    /\ UNCHANGED first

NextConcurrent ==
    \/ NextOver(ConcurrentTexts)
    \/ PeerAuthenticateRejects
    \/ PeerAuthenticateResolves
    \/ PeerRequestJsonRejects
    \/ PeerRequestJsonResolves
    \/ PeerFetchRejects
    \/ PeerFetchResolves
    \/ PeerResponseTextRejects
    \/ PeerResponseTextResolves(ConcurrentTexts)

\* two requests, their steps interleaved in every order
SpecConcurrent == InitConcurrent /\ [][NextConcurrent]_vars

----------------------------------------------------------------------------
(* The browser side: proxyRequest and its wrappers (app/utils/proxyClient). *)

\* a parameter default: `p = d` in a parameter list
Default(x, d) == IF x = Undefined THEN d ELSE x

\* proxyRequest(endpoint, method = "GET", data = null, headers = {},
\*              throwOnHttpError = true): the parameters it runs with
ProxyRequest(endpoint, method, data, headers, throwOnHttpError) ==
    [endpoint |-> endpoint,
     method |-> Default(method, Str("GET")),
     data |-> Default(data, Null),
     headers |-> Default(headers, Obj(EmptyProps)),
     throwOnHttpError |-> Default(throwOnHttpError, Bool(TRUE))]

ProxyGet(endpoint, headers, throwOnHttpError) ==
    ProxyRequest(endpoint, Str("GET"), Null, Default(headers, Obj(EmptyProps)),
                 Default(throwOnHttpError, Bool(TRUE)))

ProxyPost(endpoint, data, headers, throwOnHttpError) ==
    ProxyRequest(endpoint, Str("POST"), data, Default(headers, Obj(EmptyProps)),
                 Default(throwOnHttpError, Bool(TRUE)))

ProxyPut(endpoint, data, headers, throwOnHttpError) ==
    ProxyRequest(endpoint, Str("PUT"), data, Default(headers, Obj(EmptyProps)),
                 Default(throwOnHttpError, Bool(TRUE)))

\* ProxyDelete that sends no data
ProxyDeleteWithoutData(endpoint, data, headers, throwOnHttpError) ==
    ProxyRequest(endpoint, Str("DELETE"), Null,
                 Default(headers, Obj(EmptyProps)), Default(throwOnHttpError, Bool(TRUE)))

ProxyDelete(endpoint, data, headers, throwOnHttpError) ==
    ProxyRequest(endpoint, Str("DELETE"), Default(data, Null),
                 Default(headers, Obj(EmptyProps)), Default(throwOnHttpError, Bool(TRUE)))

\* the run of proxyRequest that the browser's call c starts
Invocation(c) ==
    CASE c.fn = "proxyGet" -> ProxyGet(c.endpoint, c.headers, c.throwOnHttpError)
      [] c.fn = "proxyPost" -> ProxyPost(c.endpoint, c.data, c.headers, c.throwOnHttpError)
      [] c.fn = "proxyPut" -> ProxyPut(c.endpoint, c.data, c.headers, c.throwOnHttpError)
      [] c.fn = "proxyDelete" ->
            ProxyDelete(c.endpoint, c.data, c.headers, c.throwOnHttpError)
      [] OTHER -> ProxyRequest(c.endpoint, c.method, c.data, c.headers, c.throwOnHttpError)

\* fetch("/api/proxy", { method: "POST", headers, body: JSON.stringify({...}) });
\* JSON.stringify leaves out the properties that are undefined
ProxyFetch(args) ==
    [url |-> "/api/proxy",
     method |-> "POST",
     headers |-> [k \in {"Content-Type"} |-> "application/json"],
     body |-> JSONstringify(RelayRequest(args.endpoint, args.method, args.data,
                                         args.headers))]

\* JSON.parse(JSON.stringify(x)): properties that are undefined are left out,
\* array elements that are undefined come back as null
RECURSIVE JsonRoundTrip(_)
JsonRoundTrip(x) ==
    CASE x.t = "obj" ->
           Obj([k \in {j \in DOMAIN x.v : x.v[j] # Undefined} |-> JsonRoundTrip(x.v[k])])
      [] x.t = "arr" ->
           Arr([i \in 1..Len(x.v) |->
                  IF x.v[i] = Undefined THEN Null ELSE JsonRoundTrip(x.v[i])])
      [] x.t = "undefined" -> Null
      [] OTHER -> x

\* the request the relay action receives for a fetch of the browser
Delivered(f) == [method |-> f.method, body |-> JsonBody(JsonRoundTrip(f.body.v))]

\* a response body that is not JSON (an HTML error or login page)
HtmlBody == [t |-> "html"]

\* `${x}` and String(x)
Interpolate(x) ==
    CASE x.t = "num" -> Str(ToString(x.v))
      [] x.t = "null" -> Str("null")
      [] x.t = "undefined" -> Str("undefined")
      [] x.t = "bool" -> Str(IF x.v THEN "true" ELSE "false")
      [] x.t = "obj" -> Str("[object Object]")
      [] x.t = "arr" -> [t |-> "joined", sep |-> ",", v |-> x.v]
      [] OTHER -> x

\* errors.join(', ')
Join(xs, sep) == [t |-> "joined", sep |-> sep, v |-> xs.v]

\* typeof x === 'string'
IsString(x) == x.t \in {"str", "text", "template"}

\* ProxyErrorMessage that never looks at the body
ProxyErrorMessageStatusOnly(status, read) ==
    Template(<<"Proxy error: ", ToString(status)>>)

\* the error message of the branch `!response.ok`
ProxyErrorMessage(status, read) ==
    LET fallback == Template(<<"Proxy error: ", ToString(status)>>)
    IN  IF read.ok /\ read.val # Null /\ Truthy(Get(read.val, "error"))
        THEN Get(read.val, "error")
        ELSE fallback

\* ErrorDetail that joins an array of errors as String(errors) does
ErrorDetailPlainJoin(data) ==
    IF Truthy(data) /\ data.t \in {"obj", "arr"}
    THEN IF Truthy(Get(data, "error")) THEN <<Str(" - "), Interpolate(Get(data, "error"))>>
         ELSE IF Truthy(Get(data, "errors"))
         THEN LET errors == Get(data, "errors")
              IN  IF IsString(errors) THEN <<Str(" - "), errors>>
                  ELSE IF errors.t = "arr" THEN <<Str(" - "), Interpolate(errors)>>
                  ELSE IF errors.t = "obj" THEN <<Str(" - "), JSONstringify(errors)>>
                  ELSE <<>>
         ELSE IF Truthy(Get(data, "message"))
         THEN <<Str(" - "), Interpolate(Get(data, "message"))>>
         ELSE <<>>
    ELSE <<>>

\* what follows `External API error: ${result.status || 'Unknown'}`
ErrorDetail(data) ==
    IF Truthy(data) /\ data.t \in {"obj", "arr"}
    THEN IF Truthy(Get(data, "error")) THEN <<Str(" - "), Interpolate(Get(data, "error"))>>
         ELSE IF Truthy(Get(data, "errors"))
         THEN LET errors == Get(data, "errors")
              IN  IF IsString(errors) THEN <<Str(" - "), errors>>
                  ELSE IF errors.t = "arr" THEN <<Str(" - "), Join(errors, ", ")>>
                  ELSE IF errors.t = "obj" THEN <<Str(" - "), JSONstringify(errors)>>
                  ELSE <<>>
         ELSE IF Truthy(Get(data, "message"))
         THEN <<Str(" - "), Interpolate(Get(data, "message"))>>
         ELSE <<>>
    ELSE <<>>

ExternalApiErrorMessage(envelope) ==
    Template(<<"External API error: ",
               IF Truthy(Get(envelope, "status"))
               THEN Interpolate(Get(envelope, "status")) ELSE Str("Unknown")>>
             \o ErrorDetail(Get(envelope, "data")))

Returned(value, read) == [kind |-> "returned", value |-> value, read |-> read]
Raised(message, read) == [kind |-> "raised", message |-> message, read |-> read]

\* ProxyOutcome that raises on every failure envelope, whatever the flag
ProxyOutcomeAlwaysThrows(resp, read, throwOnHttpError) ==
    IF ~ResponseOk(resp.status)
    THEN Raised(Interpolate(ProxyErrorMessage(resp.status, read)), read.ok)
    ELSE IF ~read.ok THEN Raised(Str(read.message), FALSE)
    ELSE IF read.val = Null
    THEN Raised(Str("Cannot read properties of null"), TRUE)
    ELSE IF ~Truthy(Get(read.val, "success"))
    THEN Raised(ExternalApiErrorMessage(read.val), TRUE)
    ELSE Returned(Get(read.val, "data"), TRUE)

\* ProxyOutcome that looks at the flag before it looks at response.ok
ProxyOutcomeFlagFirst(resp, read, throwOnHttpError) ==
    IF ~Truthy(throwOnHttpError) /\ read.ok /\ read.val # Null
    THEN Returned(Get(read.val, "data"), TRUE)
    ELSE IF ~ResponseOk(resp.status)
    THEN Raised(Interpolate(ProxyErrorMessage(resp.status, read)), read.ok)
    ELSE IF ~read.ok THEN Raised(Str(read.message), FALSE)
    ELSE IF read.val = Null
    THEN Raised(Str("Cannot read properties of null"), TRUE)
    ELSE IF ~Truthy(Get(read.val, "success"))
    THEN Raised(ExternalApiErrorMessage(read.val), TRUE)
    ELSE Returned(Get(read.val, "data"), TRUE)

\* how proxyRequest ends once response.json() settled: read.ok says whether
\* it resolved, read.val is the value it resolved with
ProxyOutcome(resp, read, throwOnHttpError) ==
    IF ~ResponseOk(resp.status)
    THEN Raised(Interpolate(ProxyErrorMessage(resp.status, read)), read.ok)
    ELSE IF ~read.ok THEN Raised(Str(read.message), FALSE)
    ELSE IF read.val = Null
    THEN Raised(Str("Cannot read properties of null"), TRUE)
    ELSE IF ~Truthy(Get(read.val, "success")) /\ Truthy(throwOnHttpError)
    THEN Raised(ExternalApiErrorMessage(read.val), TRUE)
    ELSE Returned(Get(read.val, "data"), TRUE)

\* the calls the browser makes
CallEndpoints == {Undefined, Str("https://php.example/save")}
CallData == {Undefined, Obj([title |-> Str("Case A")])}
CallHeaders == {Undefined, Obj("X-Api-Key" :> Str("k1"))}
CallFlags == {Undefined, Bool(TRUE), Bool(FALSE)}

ClientCalls ==
    [fn : {"proxyRequest"}, endpoint : CallEndpoints,
     method : {Undefined, Str("POST"), Str("PATCH")},
     data : CallData, headers : CallHeaders, throwOnHttpError : CallFlags]
    \cup [fn : {"proxyGet"}, endpoint : CallEndpoints, method : {Undefined},
          data : {Undefined}, headers : CallHeaders, throwOnHttpError : CallFlags]
    \cup [fn : {"proxyPost", "proxyPut", "proxyDelete"}, endpoint : CallEndpoints,
          method : {Undefined}, data : CallData, headers : CallHeaders,
          throwOnHttpError : CallFlags]

\* what the browser gets when the action threw instead of answering
FrameworkResponses ==
    {[status |-> 401, body |-> HtmlBody],
     [status |-> 500, body |-> HtmlBody],
     [status |-> 200, body |-> HtmlBody],
     [status |-> 502, body |-> JSONstringify(Null)],
     [status |-> 410, body |-> JSONstringify(Obj([error |-> Str("")]))],
     [status |-> 403, body |-> JSONstringify(Obj([message |-> Str("Forbidden")]))]}

\* outbound bodies with and without error details
ClientTexts ==
    {<<>>,
     <<"<", "h", "t", "m", "l", ">">>,
     <<"{", "\"", "e", "r", "r", "o", "r", "\"", ":", "\"", "a", "\"", "}">>,
     <<"{", "\"", "s", "u", "c", "c", "e", "s", "s", "\"", ":", "t", "r", "u", "e", ",",
       "\"", "e", "r", "r", "o", "r", "\"", ":", "n", "u", "l", "l", "}">>,
     <<"{", "\"", "i", "d", "\"", ":", "7", "}">>,
     <<"{", "}">>,
     <<"{", "\"", "e", "r", "r", "o", "r", "s", "\"", ":", "\"", "a", "\"", "}">>,
     <<"{", "\"", "e", "r", "r", "o", "r", "s", "\"", ":", "[", "\"", "a", "\"", ",",
       "\"", "a", "\"", "]", "}">>,
     <<"{", "\"", "e", "r", "r", "o", "r", "s", "\"", ":", "{", "\"", "a", "\"", ":",
       "\"", "a", "\"", "}", "}">>,
     <<"{", "\"", "e", "r", "r", "o", "r", "s", "\"", ":", "7", "}">>,
     <<"{", "\"", "m", "e", "s", "s", "a", "g", "e", "\"", ":", "\"", "a", "\"", "}">>,
     <<"{", "\"", "e", "r", "r", "o", "r", "\"", ":", "\"", "\"", ",", "\"", "m", "e",
       "s", "s", "a", "g", "e", "\"", ":", "\"", "a", "\"", "}">>,
     <<"[", "1", ",", "2", "]">>,
     <<"n", "u", "l", "l">>}

InitClient ==
    /\ clientCall \in ClientCalls
    /\ clientPc = "called"
    /\ proxyFetches = <<>>
    /\ relayResponse = NoRelayResponse
    /\ outcome = NoOutcome
    /\ request = [method |-> "", body |-> AbortedBody]
    /\ pc = "waiting"
    /\ session = [shop |-> "", accessToken |-> ""]
    /\ requestBody = Undefined
    /\ enhancedData = Undefined
    /\ fetchCalls = <<>>
    /\ response = NoResponse
    /\ responseText = <<>>
    /\ error = NoError
    /\ result = NoResult
    /\ peer = NoPeer
    /\ RestIdle

relayVars == <<session, requestBody, enhancedData, fetchCalls, response,
               responseText, error, result>>

\* proxyRequest up to its first await: the POST to /api/proxy is sent; the
\* action receives it whole, or with a body whose upload broke
ProxyRequestCalls ==
    /\ clientPc = "called"
    /\ proxyFetches' = Append(proxyFetches, ProxyFetch(Invocation(clientCall)))
    /\ clientPc' = "fetch"
    /\ request' \in {Delivered(ProxyFetch(Invocation(clientCall))),
                     [method |-> "POST", body |-> AbortedBody]}
    /\ pc' = "authenticate"
    /\ UNCHANGED <<clientCall, relayResponse, outcome, relayVars, peer,
                   rest>>

\* fetch("/api/proxy") rejects (the app cannot be reached, or the connection
\* to it broke before its answer arrived): caught and rethrown
ProxyFetchRejects ==
    /\ clientPc = "fetch"
    /\ outcome' = Raised(Str("Failed to fetch"), FALSE)
    /\ clientPc' = "raised"
    /\ UNCHANGED <<clientCall, proxyFetches, relayResponse, request, pc, relayVars,
                   peer, rest>>

\* fetch("/api/proxy") resolves with what the action returned, or with the
\* framework's answer when the action threw; response.json() starts
ProxyFetchResolves ==
    /\ clientPc = "fetch"
    /\ \/ /\ pc = "returned"
          /\ relayResponse' = [status |-> result.status,
                               body |-> JSONstringify(result.body)]
       \/ /\ pc = "thrown"
          /\ relayResponse' \in FrameworkResponses
    /\ clientPc' = "response.json"
    /\ UNCHANGED <<clientCall, proxyFetches, outcome, request, pc, relayVars, peer,
                   rest>>

\* response.json() rejects: the body is not JSON, or the stream broke
ProxyJsonRejects ==
    /\ clientPc = "response.json"
    /\ outcome' = ProxyOutcome(relayResponse,
                               [ok |-> FALSE,
                                message |-> IF relayResponse.body.t = "json"
                                            THEN "aborted" ELSE "Unexpected token"],
                               Invocation(clientCall).throwOnHttpError)
    /\ clientPc' = outcome'.kind
    /\ UNCHANGED <<clientCall, proxyFetches, relayResponse, request, pc, relayVars, peer,
                   rest>>

\* response.json() resolves; the envelope is unwrapped
ProxyJsonResolves ==
    /\ clientPc = "response.json"
    /\ relayResponse.body.t = "json"
    /\ outcome' = ProxyOutcome(relayResponse,
                               [ok |-> TRUE, val |-> JsonRoundTrip(relayResponse.body.v)],
                               Invocation(clientCall).throwOnHttpError)
    /\ clientPc' = outcome'.kind
    /\ UNCHANGED <<clientCall, proxyFetches, relayResponse, request, pc, relayVars, peer,
                   rest>>

NextClient ==
    \/ ProxyRequestCalls
    \/ ProxyFetchRejects
    \/ ProxyFetchResolves
    \/ ProxyJsonRejects
    \/ ProxyJsonResolves
    \/ NextOver(ClientTexts)

\* the browser's call composed with the relay action
SpecClient == InitClient /\ [][NextClient]_vars

----------------------------------------------------------------------------
(* The other routes and modules run on their own: the relay action, the    *)
(* browser client and the second invocation stay idle.                     *)

RelayIdle ==
    /\ request = [method |-> "", body |-> AbortedBody]
    /\ pc = "waiting"
    /\ session = [shop |-> "", accessToken |-> ""]
    /\ requestBody = Undefined
    /\ enhancedData = Undefined
    /\ fetchCalls = <<>>
    /\ response = NoResponse
    /\ responseText = <<>>
    /\ error = NoError
    /\ result = NoResult
    /\ peer = NoPeer

ClientIdle ==
    /\ clientCall = NoCall
    /\ clientPc = "none"
    /\ proxyFetches = <<>>
    /\ relayResponse = NoRelayResponse
    /\ outcome = NoOutcome

relay == <<request, pc, session, requestBody, enhancedData, fetchCalls,
           response, responseText, error, result, peer>>

----------------------------------------------------------------------------
(* db.server: the module that exports the database client.  Each process   *)
(* has its own `global`; the module body runs to its end without an await, *)
(* so one evaluation is one step.                                          *)

NumProcesses == 3
MaxEvaluations == 4

Processes == 1..NumProcesses

\* the n-th PrismaClient constructed in process p
PrismaClient(p, n) == [t |-> "PrismaClient", process |-> p, n |-> n]

InitDb ==
    /\ db = [p \in Processes |->
               [prisma |-> Undefined, constructed |-> 0, exports |-> <<>>]]
    /\ article = NotRunning
    /\ diagnostics = NotRunning
    /\ form = NotRunning
    /\ index = NotRunning
    /\ RelayIdle
    /\ ClientIdle

\* Evaluate that constructs a client at every evaluation
EvaluateAlwaysConstructs(p) ==
    /\ Len(db[p].exports) < MaxEvaluations
    /\ LET prisma == PrismaClient(p, db[p].constructed + 1)
       IN  db' = [db EXCEPT ![p] = [prisma |-> prisma,
                                    constructed |-> db[p].constructed + 1,
                                    exports |-> Append(db[p].exports, prisma)]]
    /\ UNCHANGED <<relay, clientVars, article, diagnostics, form, index>>

\* one evaluation of the module in process p
Evaluate(p) ==
    /\ Len(db[p].exports) < MaxEvaluations
    /\ IF db[p].prisma = Undefined
       THEN LET prisma == PrismaClient(p, db[p].constructed + 1)
            IN  db' = [db EXCEPT ![p] = [prisma |-> prisma,
                                         constructed |-> db[p].constructed + 1,
                                         exports |-> Append(db[p].exports, prisma)]]
       ELSE db' = [db EXCEPT ![p].exports = Append(db[p].exports, db[p].prisma)]
    /\ UNCHANGED <<relay, clientVars, article, diagnostics, form, index>>

NextDb == \E p \in Processes : Evaluate(p)

SpecDb == InitDb /\ [][NextDb]_vars

----------------------------------------------------------------------------
(* app.articles.new: the action that creates a case-study article, a JSON  *)
(* template for it in the main theme, and points the article at it.        *)

\* x?.k
OptGet(x, k) == IF x \in {Undefined, Null} THEN Undefined ELSE Get(x, k)

\* xs[0] (xs neither null nor undefined)
FirstOf(xs) == IF xs.t = "arr" /\ Len(xs.v) > 0 THEN xs.v[1] ELSE Undefined

\* String.prototype.toLowerCase on the letters titles are written with
LowerCase == [c \in {"M", "P"} |-> IF c = "M" THEN "m" ELSE "p"]

\* \w and "-": what the second replace of generateHandle keeps
WordChars == {"m", "y", "p", "M", "P", "7", "_", "-"}

\* title.toLowerCase().replace(/\s+/g, '-').replace(/[^\w-]+/g, '')
RECURSIVE Dashed(_, _)
Dashed(cs, inSpace) ==
    IF cs = <<>> THEN <<>>
    ELSE IF Head(cs) \in TrimWhitespace
         THEN (IF inSpace THEN <<>> ELSE <<"-">>) \o Dashed(Tail(cs), TRUE)
         ELSE <<IF Head(cs) \in DOMAIN LowerCase THEN LowerCase[Head(cs)] ELSE Head(cs)>>
              \o Dashed(Tail(cs), FALSE)

generateHandle(title) ==
    Text(SelectSeq(Dashed(title.v, FALSE), LAMBDA c : c \in WordChars))

\* gid.substring(gid.lastIndexOf("/") + 1); null for a falsy gid
getNumericId(gid) ==
    IF ~Truthy(gid) THEN Null
    ELSE LET slashes == {i \in 1..Len(gid.v) : gid.v[i] = "/"}
             last == IF slashes = {} THEN 0
                     ELSE CHOOSE i \in slashes : \A j \in slashes : j <= i
         IN  Text(SubSeq(gid.v, last + 1, Len(gid.v)))

\* !title || typeof title !== 'string' || title.trim() === ""
TitleMissing(title) ==
    \/ ~Truthy(title)
    \/ title.t # "text"
    \/ Trim(title.v) = <<>>

\* a value computed without a throw, or the TypeError thrown on the way
Value(v) == [ok |-> TRUE, val |-> v]
TypeError(m) == [ok |-> FALSE, message |-> m]

\* blogQueryJson.data?.blogs?.edges[0]?.node
BlogNode(blogQueryJson) ==
    LET blogs == OptGet(Get(blogQueryJson, "data"), "blogs")
    IN  IF blogs \in {Undefined, Null} THEN Value(Undefined)
        ELSE IF Get(blogs, "edges") \in {Undefined, Null}
        THEN TypeError("Cannot read properties of undefined (reading '0')")
        ELSE Value(OptGet(FirstOf(Get(blogs, "edges")), "node"))

Shop == "alpha.myshopify.com"

TitleRequired ==
    Json(Obj([errors |-> Obj([title |-> Str("Title is required.")]), shop |-> Str(Shop)]),
         400)

BlogNotFound ==
    Json(Obj([errors |-> Obj([form |->
                Str("Could not find the 'case-studies' blog. Please ensure it exists.")]),
              shop |-> Str(Shop)]), 500)

\* userErrors.map(e => e.message).join(", ")
UserErrorsResponse(userErrors) ==
    Json(Obj([errors |-> Obj([form |->
                [t |-> "joined", sep |-> ", ",
                 v |-> [i \in 1..Len(userErrors.v) |-> Get(userErrors.v[i], "message")]]]),
              shop |-> Str(Shop)]), 400)

CreateFailed ==
    Json(Obj([errors |-> Obj([form |-> Str("Failed to create article. Check server logs.")]),
              shop |-> Str(Shop)]), 500)

\* newArticle.onlineStoreUrl || `https://${shop}/admin/articles/${newArticleNumericId}`
FallbackUrl(newArticle) ==
    IF Truthy(Get(newArticle, "onlineStoreUrl")) THEN Get(newArticle, "onlineStoreUrl")
    ELSE Template(<<"https://", Shop, "/admin/articles/", getNumericId(Get(newArticle, "id"))>>)

\* the answer for an article that exists while a later step failed
CreatedWithWarning(newArticle, warning) ==
    Json(Obj([success |-> Bool(TRUE), warning |-> warning, article |-> newArticle,
              shop |-> Str(Shop), themeEditorUrl |-> FallbackUrl(newArticle)]), 200)

ThemeInfoWarning ==
    Str("Article created, but failed to get theme info for template creation.")
NoMainThemeWarning ==
    Str("Article created, but no main theme found for template creation.")
AssetWarning(message) ==
    Template(<<"Article created, but failed to create the JSON template (", message,
               "). You may need to create it manually.">>)

\* `case-study-${newArticle.handle}`
TemplateName(newArticle) == Template(<<"case-study-", Get(newArticle, "handle")>>)

\* the answer when every step succeeded
CreatedWithTemplate(newArticle, themeId) ==
    Json(Obj([success |-> Bool(TRUE), article |-> newArticle,
              themeEditorUrl |->
                Template(<<"https://", Shop, "/admin/themes/", themeId,
                           "/editor?template=article.", TemplateName(newArticle),
                           "&type=article&id=", getNumericId(Get(newArticle, "id"))>>),
              shop |-> Str(Shop)]), 200)

\* the outer catch block
UnexpectedError(message) ==
    Json(Obj([errors |-> Obj([form |->
                Template(<<"An unexpected error occurred: ", message>>)]),
              shop |-> Str(Shop)]), 500)

\* what formData.get("title") can give: nothing, a file, and strings
Titles ==
    {Null, Obj([name |-> Str("upload.png")]), Text(<<>>), Text(<<" ", "\n">>),
     Text(<<"M", "y", " ", " ", "P", "!">>), Text(<<"7">>), Text(<<" ", "M", "_", "7">>)}

BlogId == Text(<<"g", "i", "d", "/", "B", "/", "1">>)

BlogEdges(edges) == Obj([data |-> Obj([blogs |-> Obj([edges |-> edges])])])

BlogQueryJsons ==
    {BlogEdges(Arr(<<Obj([node |-> Obj([id |-> BlogId])])>>)),
     BlogEdges(Arr(<<>>)),
     BlogEdges(Arr(<<Obj([node |-> Obj(EmptyProps)])>>)),
     Obj([errors |-> Arr(<<Obj([message |-> Str("Throttled")])>>)]),
     Obj([data |-> Obj([blogs |-> Obj(EmptyProps)])])}

ArticleCreatePayload(created, userErrors) ==
    Obj([data |-> Obj([articleCreate |->
                         Obj([article |-> created, userErrors |-> userErrors])])])

ArticleId == Text(<<"g", "i", "d", "/", "A", "/", "4", "2">>)

CreateArticleJsons ==
    {ArticleCreatePayload(Obj([id |-> ArticleId, handle |-> Text(<<"m", "y", "-", "p">>),
                               onlineStoreUrl |-> Null]), Arr(<<>>)),
     ArticleCreatePayload(Obj([id |-> ArticleId, handle |-> Text(<<"m", "y", "-", "p">>),
                               onlineStoreUrl |-> Str("https://shop.example/a/my-p")]),
                          Arr(<<>>)),
     ArticleCreatePayload(Null, Arr(<<Obj([message |-> Str("Title is taken")])>>)),
     ArticleCreatePayload(Null, Arr(<<>>)),
     Obj([errors |-> Arr(<<Obj([message |-> Str("Access denied")])>>)])}

ThemeJsons ==
    {Obj([themes |-> Arr(<<Obj([id |-> Num(7), role |-> Str("main")])>>)]),
     Obj([themes |-> Arr(<<Obj([id |-> Num(8), role |-> Str("main")]),
                           Obj([id |-> Num(9), role |-> Str("unpublished")])>>)]),
     Obj([themes |-> Arr(<<>>)]),
     Obj(EmptyProps),
     Obj([themes |-> Arr(<<Obj(EmptyProps)>>)]),
     Obj([themes |-> Arr(<<Null>>)])}

\* the messages of the errors an awaited call rejects with
Rejections == {"fetch failed", "Not Found"}

InitArticle ==
    /\ \E title \in Titles :
         article = [pc |-> "authenticate", title |-> title, calls |-> <<>>,
                    newArticle |-> Undefined, currentThemeId |-> Null,
                    error |-> NoError, result |-> NoResult]
    /\ db = NotRunning
    /\ diagnostics = NotRunning
    /\ form = NotRunning
    /\ index = NotRunning
    /\ RelayIdle
    /\ ClientIdle

\* what a step of the article-creation action cannot touch
notArticle == <<relay, clientVars, db, diagnostics, form, index>>

\* the action returns r
ArticleReturns(r) ==
    /\ article' = [article EXCEPT !.pc = "returned", !.result = r]
    /\ UNCHANGED notArticle

\* the awaited call at `at` rejects and the action answers r(message)
ArticleCatches(at, r(_)) ==
    /\ \E m \in Rejections :
         article' = [article EXCEPT !.pc = "returned",
                                    !.error = [at |-> at, message |-> m],
                                    !.result = r(m)]
    /\ UNCHANGED notArticle

\* the action goes on to the call c, then awaited at pc = c.name
ArticleCalls(c, changed) ==
    /\ article' = [changed EXCEPT !.pc = c.name, !.calls = Append(article.calls, c)]
    /\ UNCHANGED notArticle

\* the action goes on to read the body of the response it got
ArticleReads(at) ==
    /\ article' = [article EXCEPT !.pc = at]
    /\ UNCHANGED notArticle

\* authenticate.admin or request.formData rejects: outside the try block
ArticleThrows ==
    /\ article.pc \in {"authenticate", "formData"}
    /\ article' = [article EXCEPT !.result = Thrown(article.pc), !.pc = "thrown"]
    /\ UNCHANGED notArticle

ArticleAuthenticated ==
    /\ article.pc = "authenticate"
    /\ ArticleReads("formData")

\* the form is read; the title check; the blog query starts
ArticleFormRead ==
    /\ article.pc = "formData"
    /\ IF TitleMissing(article.title)
       THEN ArticleReturns(TitleRequired)
       ELSE ArticleCalls([name |-> "blogQuery", handle |-> "handle:'case-studies'"],
                         article)

ArticleBlogQueryRejects ==
    /\ article.pc = "blogQuery"
    /\ ArticleCatches("blogQuery", UnexpectedError)

ArticleBlogQueryResolves ==
    /\ article.pc = "blogQuery"
    /\ ArticleReads("blogQuery.json")

ArticleBlogJsonRejects ==
    /\ article.pc = "blogQuery.json"
    /\ ArticleCatches("blogQuery.json", UnexpectedError)

\* the blog is looked up in the answer; articleCreate starts
ArticleBlogJsonResolves ==
    /\ article.pc = "blogQuery.json"
    /\ \E blogQueryJson \in BlogQueryJsons :
         LET blogNode == BlogNode(blogQueryJson)
         IN  IF ~blogNode.ok
             THEN /\ article' = [article EXCEPT
                                   !.pc = "returned",
                                   !.error = [at |-> "blogNode",
                                              message |-> blogNode.message],
                                   !.result = UnexpectedError(blogNode.message)]
                  /\ UNCHANGED notArticle
             ELSE IF ~Truthy(OptGet(blogNode.val, "id"))
             THEN ArticleReturns(BlogNotFound)
             ELSE ArticleCalls(
                    [name |-> "articleCreate",
                     blogId |-> Get(blogNode.val, "id"),
                     input |-> Obj([title |-> article.title,
                                    handle |-> generateHandle(article.title),
                                    published |-> Bool(FALSE),
                                    author |-> Str("Case Study Author"),
                                    bodyHtml |->
                                      Str("<p>Start writing your case study here...</p>")])],
                    article)

ArticleCreateRejects ==
    /\ article.pc = "articleCreate"
    /\ ArticleCatches("articleCreate", UnexpectedError)

ArticleCreateResolves ==
    /\ article.pc = "articleCreate"
    /\ ArticleReads("articleCreate.json")

ArticleCreateJsonRejects ==
    /\ article.pc = "articleCreate.json"
    /\ ArticleCatches("articleCreate.json", UnexpectedError)

\* the created article is taken from the answer; the theme lookup starts
ArticleCreateJsonResolves ==
    /\ article.pc = "articleCreate.json"
    /\ \E createArticleJson \in CreateArticleJsons :
         LET articleCreate == OptGet(Get(createArticleJson, "data"), "articleCreate")
             userErrors == OptGet(articleCreate, "userErrors")
         IN  IF userErrors.t = "arr" /\ Len(userErrors.v) > 0
             THEN ArticleReturns(UserErrorsResponse(userErrors))
             ELSE IF ~Truthy(OptGet(articleCreate, "article"))
             THEN ArticleReturns(CreateFailed)
             ELSE ArticleCalls([name |-> "themes", role |-> "main"],
                               [article EXCEPT !.newArticle = Get(articleCreate, "article")])

\* admin.rest.get({ path: "themes" }) rejects: the first inner catch block
ArticleThemesRejects ==
    /\ article.pc = "themes"
    /\ ArticleCatches("themes",
                      LAMBDA m : CreatedWithWarning(article.newArticle, ThemeInfoWarning))

ArticleThemesResolves ==
    /\ article.pc = "themes"
    /\ ArticleReads("themes.json")

ArticleThemesJsonRejects ==
    /\ article.pc = "themes.json"
    /\ ArticleCatches("themes.json",
                      LAMBDA m : CreatedWithWarning(article.newArticle, ThemeInfoWarning))

\* the main theme is taken from the answer; the template asset PUT starts
ArticleThemesJsonResolves ==
    /\ article.pc = "themes.json"
    /\ \E themeResponseJson \in ThemeJsons :
         LET themes == Get(themeResponseJson, "themes")
             found == Truthy(themes) /\ themes.t = "arr" /\ Len(themes.v) > 0
         IN  IF found /\ themes.v[1] = Null
             THEN /\ article' =
                       [article EXCEPT
                          !.pc = "returned",
                          !.error = [at |-> "themes[0].id",
                                     message |-> "Cannot read properties of null"],
                          !.result = CreatedWithWarning(article.newArticle,
                                                        ThemeInfoWarning)]
                  /\ UNCHANGED notArticle
             ELSE LET currentThemeId == IF found THEN Get(themes.v[1], "id") ELSE Null
                  IN  IF ~Truthy(currentThemeId)
                      THEN ArticleReturns(CreatedWithWarning(article.newArticle,
                                                             NoMainThemeWarning))
                      ELSE ArticleCalls(
                             [name |-> "assetPut",
                              themeId |-> currentThemeId,
                              key |-> Template(<<"templates/article.",
                                                 TemplateName(article.newArticle),
                                                 ".json">>)],
                             [article EXCEPT !.currentThemeId = currentThemeId])

\* ArticleAssetPutRejects that notes the failure and goes on to articleUpdate
ArticleAssetPutRejectsGoesOn ==
    /\ article.pc = "assetPut"
    /\ \E m \in Rejections :
         ArticleCalls([name |-> "articleUpdate",
                       id |-> Get(article.newArticle, "id"),
                       templateSuffix |-> TemplateName(article.newArticle)],
                      [article EXCEPT !.error = [at |-> "assetPut", message |-> m]])

\* admin.rest.put rejects: the second inner catch block
ArticleAssetPutRejects ==
    /\ article.pc = "assetPut"
    /\ ArticleCatches("assetPut",
                      LAMBDA m : CreatedWithWarning(article.newArticle, AssetWarning(m)))

\* the asset is written; articleUpdate starts
ArticleAssetPutResolves ==
    /\ article.pc = "assetPut"
    /\ ArticleCalls([name |-> "articleUpdate",
                     id |-> Get(article.newArticle, "id"),
                     templateSuffix |-> TemplateName(article.newArticle)],
                    article)

\* admin.graphql(articleUpdate) rejects: the outer catch block
ArticleUpdateRejects ==
    /\ article.pc = "articleUpdate"
    /\ ArticleCatches("articleUpdate", UnexpectedError)

\* articleUpdate resolves (its answer is not looked at): the editor URL
ArticleUpdateResolves ==
    /\ article.pc = "articleUpdate"
    /\ ArticleReturns(CreatedWithTemplate(article.newArticle, article.currentThemeId))

NextArticle ==
    \/ ArticleThrows
    \/ ArticleAuthenticated
    \/ ArticleFormRead
    \/ ArticleBlogQueryRejects
    \/ ArticleBlogQueryResolves
    \/ ArticleBlogJsonRejects
    \/ ArticleBlogJsonResolves
    \/ ArticleCreateRejects
    \/ ArticleCreateResolves
    \/ ArticleCreateJsonRejects
    \/ ArticleCreateJsonResolves
    \/ ArticleThemesRejects
    \/ ArticleThemesResolves
    \/ ArticleThemesJsonRejects
    \/ ArticleThemesJsonResolves
    \/ ArticleAssetPutRejects
    \/ ArticleAssetPutResolves
    \/ ArticleUpdateRejects
    \/ ArticleUpdateResolves

SpecArticle == InitArticle /\ [][NextArticle]_vars

----------------------------------------------------------------------------
(* The template-diagnostics action (app.diagnostics.jsx).                  *)

\* the three template formats, in the order the action tries them
Formats == <<"JSON", "Liquid", "Minimal JSON">>

\* the end of each format's template key
KeyEndings == <<"-json.json", "-liquid.liquid", "-minimal.json">>

\* new Date().getTime()
Timestamps == {1, 2}

\* new Date().toISOString()
IsoString(now) == [t |-> "iso", v |-> now]

\* `debug-${timestamp}`
TemplateSuffix(timestamp) == Template(<<"debug-", Num(timestamp)>>)

\* `templates/article.${templateSuffix}-json.json` and its two siblings
TemplateKey(timestamp, n) ==
    Template(<<"templates/article.", TemplateSuffix(timestamp), KeyEndings[n]>>)

\* themes.find(theme => theme.role === 'main') over xs from i on
RECURSIVE FindMain(_, _)
FindMain(xs, i) ==
    IF i > Len(xs) THEN Value(Undefined)
    ELSE IF xs[i] \in {Null, Undefined}
    THEN TypeError("Cannot read properties of null (reading 'role')")
    ELSE IF Get(xs[i], "role") = Str("main") THEN Value(xs[i])
    ELSE FindMain(xs, i + 1)

\* !themeJson.themes || themeJson.themes.length === 0
NoThemes(themeJson) ==
    \/ ~Truthy(Get(themeJson, "themes"))
    \/ Get(themeJson, "themes").v = <<>>

\* themeJson.themes.find(theme => theme.role === 'main') || themeJson.themes[0]
MainTheme(themeJson) ==
    LET themes == Get(themeJson, "themes").v
        found == FindMain(themes, 1)
    IN  IF ~found.ok THEN found
        ELSE IF Truthy(found.val) THEN found
        ELSE Value(themes[1])

ThemeFetchFailed(status, errorText) ==
    Json(Obj([error |-> Template(<<"Failed to get theme: ", Num(status)>>),
              details |-> errorText,
              step |-> Str("theme_fetch")]), 500)

NoThemesFound ==
    Json(Obj([error |-> Str("No themes found in the store"),
              details |-> Str("The store must have at least one theme"),
              step |-> Str("theme_fetch")]), 404)

PermissionTestFailed(status, errorText) ==
    Json(Obj([error |-> Template(<<"Permission test failed: ", Num(status)>>),
              details |-> errorText,
              step |-> Str("permission_test")]), 500)

PermissionTestException(message) ==
    Json(Obj([error |-> Str("Permission test failed with exception"),
              details |-> Str(message),
              step |-> Str("permission_test")]), 500)

DiagnosticsUnexpected(message) ==
    Json(Obj([error |-> Str("Unexpected error"),
              details |-> Str(message),
              stack |-> Str("stack"),
              step |-> Str("unknown")]), 500)

\* the entry pushed when the PUT of a format was answered
TestResult(format, status, data) ==
    Obj([format |-> Str(format), success |-> Bool(ResponseOk(status)),
         status |-> Num(status), data |-> data])

\* the entry pushed when the PUT of a format threw
TestFailure(format, message) ==
    Obj([format |-> Str(format), success |-> Bool(FALSE),
         error |-> Str(message),
         errorDetails |-> Obj([message |-> Str(message)])])

\* testResults.some(result => result.success)
AnySuccess(testResults) ==
    \E i \in 1..Len(testResults) : Truthy(Get(testResults[i], "success"))

DiagnosticsReport(testResults, mainTheme, now) ==
    Json(Obj([success |-> Bool(AnySuccess(testResults)),
              message |-> IF AnySuccess(testResults)
                          THEN Str("At least one template format was created successfully")
                          ELSE Str("All template formats failed"),
              testResults |-> Arr(testResults),
              theme |-> Obj([id |-> Get(mainTheme, "id"),
                             name |-> Get(mainTheme, "name"),
                             role |-> Get(mainTheme, "role")]),
              timestamp |-> IsoString(now)]), 200)

\* the bodies admin.rest.get('/themes.json') is answered with
DiagnosticsThemeJsons ==
    {Obj([themes |-> Arr(<<Obj([id |-> Num(7), name |-> Str("Dawn"),
                                role |-> Str("main")])>>)]),
     Obj([themes |-> Arr(<<Obj([id |-> Num(9), name |-> Str("Draft"),
                                role |-> Str("unpublished")]),
                           Obj([id |-> Num(8), name |-> Str("Dawn"),
                                role |-> Str("main")])>>)]),
     Obj([themes |-> Arr(<<Obj([id |-> Num(9), name |-> Str("Draft"),
                                role |-> Str("unpublished")])>>)]),
     Obj([themes |-> Arr(<<>>)]),
     Obj(EmptyProps),
     Obj([themes |-> Arr(<<Null>>)])}

\* the statuses the themes request and the asset PUTs are answered with
ThemeStatuses == {200, 401}
AssetStatuses == {200, 404, 422}

\* the bodies an asset PUT's response is read as
AssetJson == Obj([asset |-> Obj([key |-> Str("key")])])
AssetText == Str("Not Found")

\* "Could not parse response: " + (e.message || String(e))
CouldNotParse(message) == Template(<<"Could not parse response: ", Str(message)>>)

InitDiagnostics ==
    /\ diagnostics = [pc |-> "authenticate", calls |-> <<>>,
                      themeStatus |-> 0, themeJson |-> Undefined,
                      mainTheme |-> Undefined, timestamp |-> 0,
                      permissionStatus |-> 0, attemptStatus |-> 0,
                      testResults |-> <<>>,
                      error |-> NoError, result |-> NoResult]
    /\ db = NotRunning
    /\ article = NotRunning
    /\ form = NotRunning
    /\ index = NotRunning
    /\ RelayIdle
    /\ ClientIdle

\* what a step of the diagnostics action cannot touch
notDiagnostics == <<relay, clientVars, db, article, form, index>>

\* the action returns r
DiagnosticsReturns(r, changed) ==
    /\ diagnostics' = [changed EXCEPT !.pc = "returned", !.result = r]
    /\ UNCHANGED notDiagnostics

\* the awaited call at `at` rejects and the catch block answers r(message)
DiagnosticsCatches(at, r(_)) ==
    /\ \E m \in Rejections :
         diagnostics' = [diagnostics EXCEPT !.pc = "returned",
                                            !.error = [at |-> at, message |-> m],
                                            !.result = r(m)]
    /\ UNCHANGED notDiagnostics

\* the action goes on to the call c, then awaited at pc = c.name
DiagnosticsCalls(c, changed) ==
    /\ diagnostics' = [changed EXCEPT !.pc = c.name,
                                      !.calls = Append(diagnostics.calls, c)]
    /\ UNCHANGED notDiagnostics

\* the PUT of the n-th template format
TemplatePut(n, changed) ==
    [name |-> "templatePut", format |-> Formats[n],
     themeId |-> Get(changed.mainTheme, "id"),
     key |-> TemplateKey(changed.timestamp, n)]

\* an entry is pushed: the next format is tried, or the report is returned
DiagnosticsPushes(entry) ==
    LET testResults == Append(diagnostics.testResults, entry)
        changed == [diagnostics EXCEPT !.testResults = testResults]
    IN  IF Len(testResults) < Len(Formats)
        THEN DiagnosticsCalls(TemplatePut(Len(testResults) + 1, changed), changed)
        ELSE \E now \in Timestamps :
                DiagnosticsReturns(
                    DiagnosticsReport(testResults, diagnostics.mainTheme, now),
                    changed)

\* authenticate.admin rejects: the outer catch block
DiagnosticsAuthenticateRejects ==
    /\ diagnostics.pc = "authenticate"
    /\ DiagnosticsCatches("authenticate", DiagnosticsUnexpected)

\* authenticated: the themes request starts
DiagnosticsAuthenticated ==
    /\ diagnostics.pc = "authenticate"
    /\ DiagnosticsCalls([name |-> "themes", role |-> "main"], diagnostics)

DiagnosticsThemesRejects ==
    /\ diagnostics.pc = "themes"
    /\ DiagnosticsCatches("themes", DiagnosticsUnexpected)

\* the themes request is answered: its body is read as text or as JSON
DiagnosticsThemesResolves ==
    /\ diagnostics.pc = "themes"
    /\ \E status \in ThemeStatuses :
         diagnostics' = [diagnostics EXCEPT
                            !.themeStatus = status,
                            !.pc = IF ResponseOk(status) THEN "themes.json"
                                   ELSE "themes.text"]
    /\ UNCHANGED notDiagnostics

DiagnosticsThemesTextRejects ==
    /\ diagnostics.pc = "themes.text"
    /\ DiagnosticsCatches("themes.text", DiagnosticsUnexpected)

DiagnosticsThemesTextResolves ==
    /\ diagnostics.pc = "themes.text"
    /\ DiagnosticsReturns(ThemeFetchFailed(diagnostics.themeStatus, AssetText),
                          diagnostics)

DiagnosticsThemesJsonRejects ==
    /\ diagnostics.pc = "themes.json"
    /\ DiagnosticsCatches("themes.json", DiagnosticsUnexpected)

\* the themes are read: the main theme is picked and the permission test starts
DiagnosticsThemesJsonResolves ==
    /\ diagnostics.pc = "themes.json"
    /\ \E themeJson \in DiagnosticsThemeJsons :
         LET read == [diagnostics EXCEPT !.themeJson = themeJson]
         IN  IF NoThemes(themeJson)
             THEN DiagnosticsReturns(NoThemesFound, read)
             ELSE LET mainTheme == MainTheme(themeJson)
                  IN  IF ~mainTheme.ok
                      THEN DiagnosticsReturns(
                               DiagnosticsUnexpected(mainTheme.message),
                               [read EXCEPT !.error = [at |-> "mainTheme",
                                                       message |-> mainTheme.message]])
                      ELSE \E timestamp \in Timestamps :
                             DiagnosticsCalls(
                                 [name |-> "permissionPut",
                                  themeId |-> Get(mainTheme.val, "id"),
                                  key |-> Template(<<"assets/test-", Num(timestamp), ".txt">>)],
                                 [read EXCEPT !.mainTheme = mainTheme.val,
                                              !.timestamp = timestamp])

\* the permission PUT rejects: the inner catch block
DiagnosticsPermissionRejects ==
    /\ diagnostics.pc = "permissionPut"
    /\ DiagnosticsCatches("permissionPut", PermissionTestException)

\* the permission PUT is answered: refused, or the first format is tried
DiagnosticsPermissionResolves ==
    /\ diagnostics.pc = "permissionPut"
    /\ \E status \in AssetStatuses :
         LET answered == [diagnostics EXCEPT !.permissionStatus = status]
         IN  IF ResponseOk(status)
             THEN DiagnosticsCalls(TemplatePut(1, answered), answered)
             ELSE /\ diagnostics' = [answered EXCEPT !.pc = "permissionPut.text"]
                  /\ UNCHANGED notDiagnostics

DiagnosticsPermissionTextRejects ==
    /\ diagnostics.pc = "permissionPut.text"
    /\ DiagnosticsCatches("permissionPut.text", PermissionTestException)

DiagnosticsPermissionTextResolves ==
    /\ diagnostics.pc = "permissionPut.text"
    /\ DiagnosticsReturns(
           PermissionTestFailed(diagnostics.permissionStatus, AssetText),
           diagnostics)

\* DiagnosticsTemplatePutRejects without a catch block around the attempt
DiagnosticsTemplatePutRejectsAborts ==
    /\ diagnostics.pc = "templatePut"
    /\ DiagnosticsCatches("templatePut", DiagnosticsUnexpected)

\* the PUT of a format rejects: the attempt's catch block pushes a failure
DiagnosticsTemplatePutRejects ==
    /\ diagnostics.pc = "templatePut"
    /\ \E m \in Rejections :
         DiagnosticsPushes(
             TestFailure(Formats[Len(diagnostics.testResults) + 1], m))

\* the PUT of a format is answered: its body is read
DiagnosticsTemplatePutResolves ==
    /\ diagnostics.pc = "templatePut"
    /\ \E status \in AssetStatuses :
         diagnostics' = [diagnostics EXCEPT !.attemptStatus = status,
                                            !.pc = "templatePut.read"]
    /\ UNCHANGED notDiagnostics

\* reading the body rejects: the entry carries "Could not parse response"
DiagnosticsTemplateReadRejects ==
    /\ diagnostics.pc = "templatePut.read"
    /\ \E m \in Rejections :
         DiagnosticsPushes(
             TestResult(Formats[Len(diagnostics.testResults) + 1],
                        diagnostics.attemptStatus, CouldNotParse(m)))

\* the body is read, as JSON when the answer was ok and as text otherwise
DiagnosticsTemplateReadResolves ==
    /\ diagnostics.pc = "templatePut.read"
    /\ DiagnosticsPushes(
           TestResult(Formats[Len(diagnostics.testResults) + 1],
                      diagnostics.attemptStatus,
                      IF ResponseOk(diagnostics.attemptStatus)
                      THEN AssetJson ELSE AssetText))

NextDiagnostics ==
    \/ DiagnosticsAuthenticateRejects
    \/ DiagnosticsAuthenticated
    \/ DiagnosticsThemesRejects
    \/ DiagnosticsThemesResolves
    \/ DiagnosticsThemesTextRejects
    \/ DiagnosticsThemesTextResolves
    \/ DiagnosticsThemesJsonRejects
    \/ DiagnosticsThemesJsonResolves
    \/ DiagnosticsPermissionRejects
    \/ DiagnosticsPermissionResolves
    \/ DiagnosticsPermissionTextRejects
    \/ DiagnosticsPermissionTextResolves
    \/ DiagnosticsTemplatePutRejects
    \/ DiagnosticsTemplatePutResolves
    \/ DiagnosticsTemplateReadRejects
    \/ DiagnosticsTemplateReadResolves

SpecDiagnostics == InitDiagnostics /\ [][NextDiagnostics]_vars

----------------------------------------------------------------------------
(* The blog-post form (app.blog-posts.new.jsx): its two handlers call the  *)
(* relay action through the browser client.                                *)

phpServerUrl == Str("https://v4.droplet.weboptichosting.co.uk/shopify/case-studies/index.php")
phpTestUrl == Str("https://v4.droplet.weboptichosting.co.uk/shopify/case-studies/test.php")

\* a || b
OrElse(a, b) == IF Truthy(a) THEN a ELSE b

\* the runs of a handler that one page visit makes
MaxRuns == 2

\* the outbound bodies the PHP server (or whatever stands in its place) sends
FormTexts ==
    {<<>>,
     <<"<", "h", "t", "m", "l", ">">>,
     <<"{", "}">>,
     <<"n", "u", "l", "l">>,
     <<"7">>,
     <<"{", "\"", "s", "u", "c", "c", "e", "s", "s", "\"", ":", "t", "r", "u", "e", "}">>,
     <<"{", "\"", "s", "u", "c", "c", "e", "s", "s", "\"", ":", "t", "r", "u", "e", ",",
       "\"", "m", "e", "s", "s", "a", "g", "e", "\"", ":", "\"", "a", "\"", ",", "\"", "w",
       "a", "r", "n", "i", "n", "g", "\"", ":", "\"", "a", "\"", "}">>,
     <<"{", "\"", "s", "u", "c", "c", "e", "s", "s", "\"", ":", "t", "r", "u", "e", ",",
       "\"", "t", "e", "m", "p", "l", "a", "t", "e", "P", "a", "t", "h", "\"", ":", "\"",
       "a", "\"", ",", "\"", "r", "e", "s", "e", "t", "F", "o", "r", "m", "\"", ":", "t",
       "r", "u", "e", "}">>,
     <<"{", "\"", "s", "u", "c", "c", "e", "s", "s", "\"", ":", "f", "a", "l", "s", "e",
       ",", "\"", "e", "r", "r", "o", "r", "\"", ":", "\"", "a", "\"", ",", "\"", "w", "a",
       "r", "n", "i", "n", "g", "\"", ":", "\"", "a", "\"", "}">>,
     <<"{", "\"", "s", "u", "c", "c", "e", "s", "s", "\"", ":", "f", "a", "l", "s", "e",
       "}">>,
     <<"{", "\"", "p", "h", "p", "_", "v", "e", "r", "s", "i", "o", "n", "\"", ":", "\"",
       "7", "\"", ",", "\"", "t", "i", "m", "e", "\"", ":", "\"", "a", "\"", "}">>}

\* the state hooks of the component, as useState initialises them
FormMounted ==
    [pc |-> "idle", handler |-> "none", runs |-> 0,
     title |-> Str("Case A"),
     isLoading |-> Bool(FALSE),
     successMessage |-> Str(""),
     errorMessage |-> Str(""),
     warningMessage |-> Str(""),
     testingServer |-> Bool(FALSE),
     serverStatus |-> Null,
     templateStatus |-> Null,
     debugInfo |-> Null]

\* the data handleFormSubmit sends to the PHP server
FormData(title) ==
    Obj([blogId |-> Num(1), blogHandle |-> Str("case-studies"), title |-> title,
         themeId |-> Num(7), themeInfo |-> Null,
         preferJsonTemplate |-> Bool(FALSE), apiVersion |-> Str("2023-07"),
         timestamp |-> Str("now")])

\* proxyGet(phpTestUrl, {}, false)
TestCall ==
    [fn |-> "proxyGet", endpoint |-> phpTestUrl, method |-> Undefined,
     data |-> Undefined, headers |-> Obj(EmptyProps),
     throwOnHttpError |-> Bool(FALSE)]

\* proxyPost(phpServerUrl, formData, {}, false)
SubmitCall(title) ==
    [fn |-> "proxyPost", endpoint |-> phpServerUrl, method |-> Undefined,
     data |-> FormData(title), headers |-> Obj(EmptyProps),
     throwOnHttpError |-> Bool(FALSE)]

\* what the awaited proxy call hands to the handler: its value, or the
\* message of the error it (or a property read on its null value) threw
Awaited(settled, property) ==
    IF settled.kind = "raised" THEN [ok |-> FALSE, message |-> settled.message]
    ELSE IF settled.value \in {Null, Undefined}
    THEN [ok |-> FALSE,
          message |-> Template(<<"Cannot read properties of ",
                                 Interpolate(settled.value),
                                 " (reading '", property, "')">>)]
    ELSE [ok |-> TRUE, val |-> settled.value]

\* handleFormSubmit up to its await: the messages are reset
SubmitStarted(f) ==
    [f EXCEPT !.pc = "awaiting", !.handler = "handleFormSubmit",
              !.runs = f.runs + 1,
              !.successMessage = Str(""), !.errorMessage = Str(""),
              !.warningMessage = Str(""), !.templateStatus = Null,
              !.debugInfo = Null, !.isLoading = Bool(TRUE)]

\* the template status of a successful result
TemplateStatus(f, res) ==
    IF Truthy(Get(res, "warning"))
    THEN Obj([success |-> Bool(FALSE), message |-> Get(res, "warning")])
    ELSE IF Truthy(Get(res, "templatePath"))
    THEN Obj([success |-> Bool(TRUE),
              message |-> Template(<<"Template created: ", Get(res, "templatePath"),
                                     " (", OrElse(Get(res, "templateFormat"),
                                                  Str("liquid")), ")">>),
              format |-> OrElse(Get(res, "templateFormat"), Str("liquid"))])
    ELSE f.templateStatus

\* SubmitSettled that shows the warning whatever result.success says
SubmitSettledWarnsAlways(f, settled) ==
    LET got == Awaited(settled, "success")
    IN  IF ~got.ok
        THEN [f EXCEPT !.pc = "idle", !.isLoading = Bool(FALSE),
                       !.errorMessage = Template(<<"Error: ", got.message>>),
                       !.debugInfo = Obj([error |-> got.message])]
        ELSE [f EXCEPT !.pc = "idle", !.isLoading = Bool(FALSE),
                       !.debugInfo = got.val,
                       !.successMessage =
                           IF Truthy(Get(got.val, "success"))
                           THEN OrElse(Get(got.val, "message"),
                                       Str("Article created successfully!"))
                           ELSE f.successMessage,
                       !.errorMessage =
                           IF Truthy(Get(got.val, "success")) THEN f.errorMessage
                           ELSE OrElse(Get(got.val, "error"),
                                       Str("Something went wrong creating the article")),
                       !.warningMessage =
                           IF Truthy(Get(got.val, "warning"))
                           THEN Get(got.val, "warning") ELSE f.warningMessage,
                       !.templateStatus = TemplateStatus(f, got.val)]

\* handleFormSubmit from its await to its end
SubmitSettled(f, settled) ==
    LET got == Awaited(settled, "success")
    IN  IF ~got.ok
        THEN [f EXCEPT !.pc = "idle", !.isLoading = Bool(FALSE),
                       !.errorMessage = Template(<<"Error: ", got.message>>),
                       !.debugInfo = Obj([error |-> got.message])]
        ELSE IF Truthy(Get(got.val, "success"))
        THEN [f EXCEPT !.pc = "idle", !.isLoading = Bool(FALSE),
                       !.debugInfo = got.val,
                       !.successMessage =
                           OrElse(Get(got.val, "message"),
                                  Str("Article created successfully!")),
                       !.warningMessage =
                           IF Truthy(Get(got.val, "warning"))
                           THEN Get(got.val, "warning") ELSE f.warningMessage,
                       !.templateStatus = TemplateStatus(f, got.val),
                       !.title = IF Truthy(Get(got.val, "resetForm"))
                                 THEN Str("") ELSE f.title]
        ELSE [f EXCEPT !.pc = "idle", !.isLoading = Bool(FALSE),
                       !.debugInfo = got.val,
                       !.errorMessage =
                           OrElse(Get(got.val, "error"),
                                  Str("Something went wrong creating the article"))]

\* testServerConnection up to its await
TestStarted(f) ==
    [f EXCEPT !.pc = "awaiting", !.handler = "testServerConnection",
              !.runs = f.runs + 1,
              !.testingServer = Bool(TRUE), !.serverStatus = Null,
              !.debugInfo = Null]

\* testServerConnection from its await to its end
TestSettled(f, settled) ==
    LET got == Awaited(settled, "php_version")
    IN  IF ~got.ok
        THEN [f EXCEPT !.pc = "idle", !.testingServer = Bool(FALSE),
                       !.serverStatus =
                           Obj([success |-> Bool(FALSE),
                                message |-> Template(<<"Server test failed: ",
                                                       got.message>>)]),
                       !.debugInfo = Obj([error |-> got.message])]
        ELSE [f EXCEPT !.pc = "idle", !.testingServer = Bool(FALSE),
                       !.serverStatus =
                           Obj([success |-> Bool(TRUE),
                                message |->
                                    Template(<<"Server is available. PHP version: ",
                                               OrElse(Get(got.val, "php_version"),
                                                      Str("Unknown")),
                                               ", Time: ",
                                               OrElse(Get(got.val, "time"),
                                                      Str("Unknown"))>>)]),
                       !.debugInfo = got.val]

InitForm ==
    /\ form = FormMounted
    /\ db = NotRunning
    /\ article = NotRunning
    /\ diagnostics = NotRunning
    /\ index = NotRunning
    /\ RelayIdle
    /\ ClientIdle

\* the handler calls c: proxyRequest runs up to its fetch of /api/proxy, and
\* a new invocation of the relay action receives it
ProxySends(c) ==
    /\ clientCall' = c
    /\ proxyFetches' = <<ProxyFetch(Invocation(c))>>
    /\ clientPc' = "fetch"
    /\ relayResponse' = NoRelayResponse
    /\ outcome' = NoOutcome
    /\ request' \in {Delivered(ProxyFetch(Invocation(c))),
                     [method |-> "POST", body |-> AbortedBody]}
    /\ pc' = "authenticate"
    /\ session' = [shop |-> "", accessToken |-> ""]
    /\ requestBody' = Undefined
    /\ enhancedData' = Undefined
    /\ fetchCalls' = <<>>
    /\ response' = NoResponse
    /\ responseText' = <<>>
    /\ error' = NoError
    /\ result' = NoResult
    /\ UNCHANGED <<peer, db, article, diagnostics, index>>

\* the submit button is pressed (it is disabled while a run is loading)
HandleFormSubmitStarts ==
    /\ form.pc = "idle"
    /\ form.runs < MaxRuns
    /\ form' = SubmitStarted(form)
    /\ ProxySends(SubmitCall(form.title))

\* the test button is pressed
TestServerConnectionStarts ==
    /\ form.pc = "idle"
    /\ form.runs < MaxRuns
    /\ form' = TestStarted(form)
    /\ ProxySends(TestCall)

\* the awaited proxy call settled: the handler runs to its end
HandleFormSubmitSettles ==
    /\ form.pc = "awaiting"
    /\ form.handler = "handleFormSubmit"
    /\ clientPc \in {"returned", "raised"}
    /\ form' = SubmitSettled(form, outcome)
    /\ clientPc' = "none"
    /\ UNCHANGED <<clientCall, proxyFetches, relayResponse, outcome, relay, db,
                   article, diagnostics, index>>

TestServerConnectionSettles ==
    /\ form.pc = "awaiting"
    /\ form.handler = "testServerConnection"
    /\ clientPc \in {"returned", "raised"}
    /\ form' = TestSettled(form, outcome)
    /\ clientPc' = "none"
    /\ UNCHANGED <<clientCall, proxyFetches, relayResponse, outcome, relay, db,
                   article, diagnostics, index>>

NextForm ==
    \/ HandleFormSubmitStarts
    \/ TestServerConnectionStarts
    \/ HandleFormSubmitSettles
    \/ TestServerConnectionSettles
    \/ ProxyFetchRejects
    \/ ProxyFetchResolves
    \/ ProxyJsonRejects
    \/ ProxyJsonResolves
    \/ NextOver(FormTexts)

\* the form composed with the browser client and the relay action
SpecForm == InitForm /\ [][NextForm]_vars

----------------------------------------------------------------------------
(* The loader of the case-studies index page (app._index.jsx).             *)

\* what the loader has in hand: its four `let` variables
Loaded(articles, blogData, loaderErrors) ==
    [articles |-> articles, blogData |-> blogData, loaderErrors |-> loaderErrors]

\* loaderErrors.push({ message })
Pushed(loaderErrors, message) == Append(loaderErrors, Obj([message |-> message]))

\* error.message || "An unknown error occurred while fetching blog data."
BlogErrorMessage(message) ==
    OrElse(message, Str("An unknown error occurred while fetching blog data."))

\* `Failed to fetch blog data. Status: ${blogResponse.status} ${await blogResponse.text()}`
BlogFetchFailed(status, text) ==
    Template(<<"Failed to fetch blog data. Status: ", Num(status), " ", text>>)

\* blogResponseJson.errors.forEach(err => loaderErrors.push(...)) from i on:
\* the errors pushed, and the TypeError that stopped the loop if one did
RECURSIVE PushGraphQLErrors(_, _, _)
PushGraphQLErrors(errs, i, loaderErrors) ==
    IF i > Len(errs) THEN [ok |-> TRUE, loaderErrors |-> loaderErrors]
    ELSE IF errs[i] \in {Null, Undefined}
    THEN [ok |-> FALSE, loaderErrors |-> loaderErrors,
          message |-> "Cannot read properties of null (reading 'message')"]
    ELSE PushGraphQLErrors(errs, i + 1,
             Pushed(loaderErrors,
                    Template(<<"GraphQL error: ", Get(errs[i], "message")>>)))

\* if (blogResponseJson.errors) { ...forEach... }
GraphQLErrors(blogResponseJson) ==
    LET errs == Get(blogResponseJson, "errors")
    IN  IF blogResponseJson \in {Null, Undefined}
        THEN [ok |-> FALSE, loaderErrors |-> <<>>,
              message |-> "Cannot read properties of null (reading 'errors')"]
        ELSE IF ~Truthy(errs) THEN [ok |-> TRUE, loaderErrors |-> <<>>]
        ELSE IF errs.t # "arr"
        THEN [ok |-> FALSE, loaderErrors |-> <<>>,
              message |-> "blogResponseJson.errors.forEach is not a function"]
        ELSE PushGraphQLErrors(errs.v, 1, <<>>)

\* blogData?.articles?.edges.map(edge => edge.node) || []
ArticlesOf(blogData) ==
    LET edges == Get(OptGet(blogData, "articles"), "edges")
    IN  IF OptGet(blogData, "articles") \in {Null, Undefined} THEN Value(Arr(<<>>))
        ELSE IF edges.t # "arr"
        THEN TypeError("Cannot read properties of undefined (reading 'map')")
        ELSE IF \E i \in 1..Len(edges.v) : edges.v[i] \in {Null, Undefined}
        THEN TypeError("Cannot read properties of null (reading 'node')")
        ELSE Value(Arr([i \in 1..Len(edges.v) |-> Get(edges.v[i], "node")]))

\* ArticlesRead that stops at GraphQL errors, as if they had been thrown
ArticlesReadErrorsThrown(blogResponseJson) ==
    LET pushed == GraphQLErrors(blogResponseJson)
        node == BlogNode(blogResponseJson)
    IN  IF ~pushed.ok
        THEN Loaded(Arr(<<>>), Null,
                    Pushed(pushed.loaderErrors, BlogErrorMessage(Str(pushed.message))))
        ELSE IF pushed.loaderErrors # <<>>
        THEN Loaded(Arr(<<>>), Null, pushed.loaderErrors)
        ELSE IF ~node.ok
        THEN Loaded(Arr(<<>>), Null,
                    Pushed(pushed.loaderErrors, BlogErrorMessage(Str(node.message))))
        ELSE LET blogData == OrElse(node.val, Null)
                 articles == ArticlesOf(blogData)
             IN  IF ~articles.ok
                 THEN Loaded(Arr(<<>>), blogData,
                             Pushed(pushed.loaderErrors,
                                    BlogErrorMessage(Str(articles.message))))
                 ELSE Loaded(articles.val, blogData, pushed.loaderErrors)

\* lines 65-71 and the catch block behind them, for the body that was read
ArticlesRead(blogResponseJson) ==
    LET pushed == GraphQLErrors(blogResponseJson)
        node == BlogNode(blogResponseJson)
    IN  IF ~pushed.ok
        THEN Loaded(Arr(<<>>), Null,
                    Pushed(pushed.loaderErrors, BlogErrorMessage(Str(pushed.message))))
        ELSE IF ~node.ok
        THEN Loaded(Arr(<<>>), Null,
                    Pushed(pushed.loaderErrors, BlogErrorMessage(Str(node.message))))
        ELSE LET blogData == OrElse(node.val, Null)
                 articles == ArticlesOf(blogData)
             IN  IF ~articles.ok
                 THEN Loaded(Arr(<<>>), blogData,
                             Pushed(pushed.loaderErrors,
                                    BlogErrorMessage(Str(articles.message))))
                 ELSE Loaded(articles.val, blogData, pushed.loaderErrors)

\* themeResponseJson.themes?.length > 0 ? themes[0].id : (themeId stays null);
\* a TypeError on the way is caught and leaves null as well
ThemeIdOf(themeResponseJson) ==
    LET themes == OptGet(themeResponseJson, "themes")
    IN  IF themeResponseJson \in {Null, Undefined} THEN Null
        ELSE IF themes \in {Null, Undefined} THEN Null
        ELSE IF themes.t \notin {"arr", "text"} \/ Len(themes.v) = 0 THEN Null
        ELSE IF themes.t = "text" THEN Undefined
        ELSE IF themes.v[1] \in {Null, Undefined} THEN Null
        ELSE Get(themes.v[1], "id")

\* json({ articles, blogData, shop, themeId, errors })
IndexData(loaded, themeId) ==
    Json(Obj([articles |-> loaded.articles,
              blogData |-> loaded.blogData,
              shop |-> Str(Shop),
              themeId |-> themeId,
              errors |-> IF Len(loaded.loaderErrors) > 0
                         THEN Arr(loaded.loaderErrors) ELSE Null]), 200)

ArticleNode(n) == Obj([id |-> Num(n), title |-> Str("Case")])

BlogWith(edges) ==
    Obj([id |-> BlogId, handle |-> Str("case-studies"),
         articles |-> Obj([edges |-> edges])])

Throttled == Arr(<<Obj([message |-> Str("Throttled")])>>)

\* the bodies the blog query is answered with
IndexBlogJsons ==
    {BlogEdges(Arr(<<Obj([node |-> BlogWith(Arr(<<Obj([node |-> ArticleNode(1)]),
                                                 Obj([node |-> ArticleNode(2)])>>))])>>)),
     BlogEdges(Arr(<<Obj([node |-> BlogWith(Arr(<<>>))])>>)),
     BlogEdges(Arr(<<>>)),
     Obj([errors |-> Throttled, data |-> Null]),
     Obj([errors |-> Throttled,
          data |-> Obj([blogs |-> Obj([edges |->
                     Arr(<<Obj([node |-> BlogWith(Arr(<<Obj([node |-> ArticleNode(1)])>>))])>>)])])]),
     Obj([errors |-> Arr(<<>>), data |-> Obj([blogs |-> Obj([edges |-> Arr(<<>>)])])]),
     Obj([errors |-> Str("Throttled")]),
     Obj([errors |-> Arr(<<Obj([message |-> Str("Throttled")]), Null>>)]),
     Obj(EmptyProps),
     Obj([data |-> Obj([blogs |-> Obj(EmptyProps)])]),
     BlogEdges(Arr(<<Obj([node |-> Obj([id |-> BlogId, articles |-> Obj(EmptyProps)])])>>)),
     BlogEdges(Arr(<<Obj([node |-> BlogWith(Arr(<<Null>>))])>>)),
     Null}

\* the statuses admin.graphql and admin.rest.get are answered with
IndexStatuses == {200, 401, 503}

\* the messages of the errors an awaited call of the loader rejects with
IndexRejections == {Str("fetch failed"), Str("")}

InitIndex ==
    /\ index = [pc |-> "authenticate", calls |-> <<>>, blogStatus |-> 0,
                blogResponseJson |-> Undefined,
                themeStatus |-> 0, loaded |-> Loaded(Arr(<<>>), Null, <<>>),
                themeId |-> Null, blogFailure |-> "", themeFailure |-> "",
                result |-> NoResult]
    /\ db = NotRunning
    /\ article = NotRunning
    /\ diagnostics = NotRunning
    /\ form = NotRunning
    /\ RelayIdle
    /\ ClientIdle

\* what a step of the loader cannot touch
notIndex == <<relay, clientVars, db, article, diagnostics, form>>

\* the first try block is over, by its end or by its catch block: the second
\* one starts with the themes request
IndexFetchesThemes(loaded, failure, body) ==
    /\ index' = [index EXCEPT !.loaded = loaded, !.blogFailure = failure,
                              !.blogResponseJson = body,
                              !.pc = "themes",
                              !.calls = Append(index.calls, "themes")]
    /\ UNCHANGED notIndex

\* the loader returns
IndexReturns(themeId, failure) ==
    /\ index' = [index EXCEPT !.themeId = themeId, !.themeFailure = failure,
                              !.pc = "returned",
                              !.result = IndexData(index.loaded, themeId)]
    /\ UNCHANGED notIndex

\* authenticate.admin rejects: outside both try blocks
IndexAuthenticateRejects ==
    /\ index.pc = "authenticate"
    /\ index' = [index EXCEPT !.pc = "thrown", !.result = Thrown("authenticate")]
    /\ UNCHANGED notIndex

IndexAuthenticated ==
    /\ index.pc = "authenticate"
    /\ index' = [index EXCEPT !.pc = "blogQuery",
                              !.calls = Append(index.calls, "blogQuery")]
    /\ UNCHANGED notIndex

IndexBlogQueryRejects ==
    /\ index.pc = "blogQuery"
    /\ \E m \in IndexRejections :
         IndexFetchesThemes(Loaded(Arr(<<>>), Null, Pushed(<<>>, BlogErrorMessage(m))),
                            "blogQuery", Undefined)

IndexBlogQueryResolves ==
    /\ index.pc = "blogQuery"
    /\ \E status \in IndexStatuses :
         index' = [index EXCEPT !.blogStatus = status,
                                !.pc = IF ResponseOk(status) THEN "blogQuery.json"
                                       ELSE "blogQuery.text"]
    /\ UNCHANGED notIndex

IndexBlogTextRejects ==
    /\ index.pc = "blogQuery.text"
    /\ \E m \in IndexRejections :
         IndexFetchesThemes(Loaded(Arr(<<>>), Null, Pushed(<<>>, BlogErrorMessage(m))),
                            "blogQuery.text", Undefined)

\* the body of the refusal is read and thrown inside an Error
IndexBlogTextResolves ==
    /\ index.pc = "blogQuery.text"
    /\ IndexFetchesThemes(
           Loaded(Arr(<<>>), Null,
                  Pushed(<<>>, BlogErrorMessage(
                                   BlogFetchFailed(index.blogStatus, AssetText)))),
           "blogQuery.status", Undefined)

IndexBlogJsonRejects ==
    /\ index.pc = "blogQuery.json"
    /\ \E m \in IndexRejections :
         IndexFetchesThemes(Loaded(Arr(<<>>), Null, Pushed(<<>>, BlogErrorMessage(m))),
                            "blogQuery.json", Undefined)

\* the body is read: GraphQL errors are noted, the blog and its articles taken
IndexBlogJsonResolves ==
    /\ index.pc = "blogQuery.json"
    /\ \E blogResponseJson \in IndexBlogJsons :
         IndexFetchesThemes(
             ArticlesRead(blogResponseJson),
             IF ~GraphQLErrors(blogResponseJson).ok
                \/ ~BlogNode(blogResponseJson).ok
                \/ ~ArticlesOf(OrElse(BlogNode(blogResponseJson).val, Null)).ok
             THEN "TypeError"
             ELSE IF GraphQLErrors(blogResponseJson).loaderErrors # <<>>
             THEN "GraphQL"
             ELSE "",
             blogResponseJson)

IndexThemesRejects ==
    /\ index.pc = "themes"
    /\ IndexReturns(Null, "themes")

IndexThemesResolves ==
    /\ index.pc = "themes"
    /\ \E status \in IndexStatuses :
         index' = [index EXCEPT !.themeStatus = status,
                                !.pc = IF ResponseOk(status) THEN "themes.json"
                                       ELSE "themes.errorJson"]
    /\ UNCHANGED notIndex

\* the body of the refusal, readable or not, only changes the warning logged
IndexThemesErrorJsonSettles ==
    /\ index.pc = "themes.errorJson"
    /\ IndexReturns(Null, "themes.status")

IndexThemesJsonRejects ==
    /\ index.pc = "themes.json"
    /\ IndexReturns(Null, "themes.json")

IndexThemesJsonResolves ==
    /\ index.pc = "themes.json"
    /\ \E themeResponseJson \in ThemeJsons :
         IndexReturns(ThemeIdOf(themeResponseJson),
                      IF ThemeIdOf(themeResponseJson) = Null THEN "themes.none" ELSE "")

NextIndex ==
    \/ IndexAuthenticateRejects
    \/ IndexAuthenticated
    \/ IndexBlogQueryRejects
    \/ IndexBlogQueryResolves
    \/ IndexBlogTextRejects
    \/ IndexBlogTextResolves
    \/ IndexBlogJsonRejects
    \/ IndexBlogJsonResolves
    \/ IndexThemesRejects
    \/ IndexThemesResolves
    \/ IndexThemesErrorJsonSettles
    \/ IndexThemesJsonRejects
    \/ IndexThemesJsonResolves

SpecIndex == InitIndex /\ [][NextIndex]_vars

----------------------------------------------------------------------------
(* Properties of the relay endpoint.                                       *)

\* the inbound request is a POST whose body parsed as JSON
PostedJson == request.method = "POST" /\ request.body.kind = "json"

\* the action returned the envelope of an outbound response
ReturnedEnvelope ==
    pc = "returned" /\ response # NoResponse /\ error = NoError

EnvelopeOf(r) == r.body.v

\* C1: a POST whose JSON body has no truthy `endpoint` or no truthy `method`
\* (or is null) is answered 400 with the missing-parameters message, and
\* neither the enrichment nor a fetch happens for it.
C1_MissingParametersRejected ==
    (PostedJson /\ (\/ ~Truthy(Get(request.body.value, "endpoint"))
                    \/ ~Truthy(Get(request.body.value, "method"))))
    => /\ fetchCalls = <<>>
       /\ enhancedData = Undefined
       /\ pc \notin {"fetch", "response.text"}
       /\ pc = "returned" =>
            /\ result.kind = "response"
            /\ result.status = 400
            /\ result.body = Obj([success |-> Bool(FALSE),
                                  error |-> MissingParametersMessage])

C1_Witness ==
    /\ PostedJson
    /\ pc = "returned"
    /\ Truthy(Get(request.body.value, "endpoint"))
    /\ Get(request.body.value, "method") = Undefined
    /\ result.status = 400

\* C2: a relay request with `endpoint` and `method` issues exactly one
\* fetch, to that endpoint with that method, and no second one whatever the
\* outcome of the first.
C2_ExactlyOneOutboundCall ==
    /\ Len(fetchCalls) <= 1
    /\ (/\ PostedJson
        /\ Truthy(Get(request.body.value, "endpoint"))
        /\ Truthy(Get(request.body.value, "method"))
        /\ pc \in {"fetch", "response.text", "returned"})
       => /\ Len(fetchCalls) = 1
          /\ fetchCalls[1].endpoint = Get(request.body.value, "endpoint")
          /\ fetchCalls[1].options.method = Get(request.body.value, "method")

C2_Witness ==
    /\ pc = "returned"
    /\ error.at = "fetch"
    /\ Len(fetchCalls) = 1
    /\ fetchCalls[1].options.method = Str("DELETE")

\* C3: in every envelope, success is true exactly when the outbound status
\* is in 200..299, whatever the body.
C3_SuccessIffStatus2xx ==
    ReturnedEnvelope =>
        (EnvelopeOf(result).success = Bool(TRUE)) <=>
            (response.status >= 200 /\ response.status <= 299)

C3_Witness ==
    /\ ReturnedEnvelope
    /\ response.status = 404
    /\ JSONparse(responseText).ok
    /\ EnvelopeOf(result).data = Obj([success |-> Bool(TRUE), error |-> Null])
    /\ EnvelopeOf(result).success = Bool(FALSE)

\* C4 as stated: whenever fetch returned a response, the action answers 200
\* with the envelope carrying the outbound status and statusText.
C4_AnyResponseIsEnveloped ==
    (pc = "returned" /\ response # NoResponse) =>
        /\ result.kind = "response"
        /\ result.status = 200
        /\ DOMAIN EnvelopeOf(result) = {"success", "data", "status", "statusText"}

\* C4 amended: whenever fetch returned a response and response.text() did
\* not throw, the action answers 200 with an envelope {success, data, status,
\* statusText} whose status and statusText are the outbound response's.
C4_ReadResponseIsEnveloped ==
    (pc = "returned" /\ response # NoResponse /\ error.at # "response.text") =>
        /\ result.kind = "response"
        /\ result.status = 200
        /\ DOMAIN EnvelopeOf(result) = {"success", "data", "status", "statusText"}
        /\ EnvelopeOf(result).status = Num(response.status)
        /\ EnvelopeOf(result).statusText = Str(response.statusText)

C4_Witness ==
    /\ pc = "returned"
    /\ response.status = 500
    /\ result.status = 200
    /\ EnvelopeOf(result).status = Num(500)
    /\ EnvelopeOf(result).statusText = Str("Internal Server Error")

\* C5: when fetch throws, the action returns (does not throw) status 500
\* with {success:false, error:"Proxy error: " + the exception's message}.
C5_FetchFailureIs500 ==
    error.at = "fetch" =>
        /\ pc = "returned"
        /\ result.kind = "response"
        /\ result.status = 500
        /\ result.body = Obj([success |-> Bool(FALSE),
                              error |-> Template(<<"Proxy error: ", error.message>>)])

C5_Witness ==
    /\ error.at = "fetch"
    /\ error.message = "Invalid URL"
    /\ result.status = 500

\* C6 as stated: a 500 answer is always preceded by a fetch that failed.
C6_Only500WhenFetchThrew ==
    (pc = "returned" /\ result.status = 500) =>
        (error.at = "fetch" /\ Len(fetchCalls) = 1)

\* C6 amended: the action answers 500 exactly when one of the three awaits
\* inside the try block threw (request.json(), fetch(), response.text());
\* a 500 without a fetch is the failure of request.json(); validating the
\* request and parsing the outbound body never produce a 500.
C6_Only500WhenAwaitThrew ==
    pc = "returned" =>
        /\ (result.status = 500) <=>
               error.at \in {"request.json", "fetch", "response.text"}
        /\ (result.status = 500 /\ fetchCalls = <<>>) =>
               (error.at = "request.json" /\ request.body.kind # "json")
        /\ (result.status = 500 /\ response # NoResponse) => error.at = "response.text"

C6_Witness ==
    /\ pc = "returned"
    /\ result.status = 500
    /\ error.at = "request.json"
    /\ fetchCalls = <<>>
    /\ request.body.kind = "malformed"

\* C7 as stated: the action ends in one of respond-400, respond-200,
\* respond-500 and in no other status.
C7_ThreeTerminalResponses ==
    pc = "returned" => result.status \in {400, 200, 500}

\* C7 amended: an authenticated request that is not a POST ends in
\* respond-405; a POST ends in exactly one of respond-400 (validated, no
\* fetch), respond-200 (enriched, one fetch, a response) and respond-500;
\* the action produces no other status.
C7_FourTerminalResponses ==
    pc = "returned" =>
        /\ result.kind = "response"
        /\ result.status \in {405, 400, 200, 500}
        /\ (result.status = 405) <=> (request.method # "POST")
        /\ result.status = 405 => (requestBody = Undefined /\ fetchCalls = <<>>)
        /\ result.status = 400 =>
               (requestBody # Undefined /\ enhancedData = Undefined /\ fetchCalls = <<>>)
        /\ result.status = 200 =>
               (enhancedData # Undefined /\ Len(fetchCalls) = 1 /\ response # NoResponse)

C7_Witness ==
    /\ pc = "returned"
    /\ request.method = "PUT"
    /\ request.body.kind = "json"
    /\ result.status = 405

\* C8: an outbound body that is valid JSON (null, false, 0, strings and
\* arrays included) comes back as envelope.data equal to the parsed body.
C8_ValidJsonRoundTrip ==
    (ReturnedEnvelope /\ JSONparse(responseText).ok) =>
        EnvelopeOf(result).data = JSONparse(responseText).val

C8_Witness ==
    /\ ReturnedEnvelope
    /\ responseText = <<"f", "a", "l", "s", "e">>
    /\ EnvelopeOf(result).data = Bool(FALSE)

\* the text is empty or consists of whitespace only
Blank(text) == \A i \in 1..Len(text) : text[i] \in TrimWhitespace

\* raw is the first RawResponseLimit characters of text, all of it when shorter
IsPrefixUpToLimit(raw, text) ==
    /\ Len(raw) = IF Len(text) < RawResponseLimit THEN Len(text) ELSE RawResponseLimit
    /\ \A i \in 1..Len(raw) : raw[i] = text[i]

\* C9: whatever the status, the outbound body falls in exactly one of three
\* cases: blank -> {message:"Empty response"}; not blank and not JSON ->
\* {message:"Non-JSON response", rawResponse: its first 1000 characters};
\* JSON -> the parsed value; and a body that does not parse is answered with
\* the 200 envelope, not with an error.
C9_BodyClassification ==
    ReturnedEnvelope =>
        /\ result.status = 200
        /\ Blank(responseText) =>
               EnvelopeOf(result).data = Obj([message |-> Str("Empty response")])
        /\ (~Blank(responseText) /\ ~JSONparse(responseText).ok) =>
               /\ DOMAIN EnvelopeOf(result).data.v = {"message", "rawResponse"}
               /\ EnvelopeOf(result).data.v.message = Str("Non-JSON response")
               /\ EnvelopeOf(result).data.v.rawResponse.t = "text"
               /\ IsPrefixUpToLimit(EnvelopeOf(result).data.v.rawResponse.v, responseText)
        /\ (~Blank(responseText) /\ JSONparse(responseText).ok) =>
               EnvelopeOf(result).data = JSONparse(responseText).val

C9_Witness ==
    /\ ReturnedEnvelope
    /\ response.status = 404
    /\ Len(responseText) > RawResponseLimit
    /\ EnvelopeOf(result).data.v.message = Str("Non-JSON response")
    /\ Len(EnvelopeOf(result).data.v.rawResponse.v) = RawResponseLimit

\* C10: when the relay request's method is not GET the fetch body is the
\* JSON of the caller's data fields merged with shopDomain = session.shop and
\* accessToken = session.accessToken; when it is GET the fetch has no body.
C10_BodyOnlyForNonGet ==
    fetchCalls # <<>> =>
        LET call == fetchCalls[1]
            data == OwnProps(Get(request.body.value, "data"))
        IN  IF Get(request.body.value, "method") = Str("GET")
            THEN "body" \notin DOMAIN call.options
            ELSE /\ "body" \in DOMAIN call.options
                 /\ call.options.body.t = "json"
                 /\ LET sent == call.options.body.v.v
                    IN  /\ DOMAIN sent = DOMAIN data \cup {"shopDomain", "accessToken"}
                        /\ sent.shopDomain = Str(session.shop)
                        /\ sent.accessToken = Str(session.accessToken)
                        /\ \A k \in DOMAIN data \ {"shopDomain", "accessToken"} :
                               sent[k] = data[k]

C10_Witness ==
    /\ fetchCalls # <<>>
    /\ fetchCalls[1].options.method = Str("PUT")
    /\ Get(request.body.value, "data") = Obj([title |-> Str("Case A")])
    /\ fetchCalls[1].options.body.v.v =
           [title |-> Str("Case A"), shopDomain |-> Str(session.shop),
            accessToken |-> Str(session.accessToken)]

----------------------------------------------------------------------------
(* Properties of the browser side.                                         *)

\* proxyRequest ended after reading the JSON body of a 2xx answer
UnwrappedEnvelope ==
    /\ clientPc \in {"returned", "raised"}
    /\ outcome.read
    /\ ResponseOk(relayResponse.status)
    /\ relayResponse.body.v.t = "obj"

ClientEnvelope == relayResponse.body.v

ThrowOnHttpError == Invocation(clientCall).throwOnHttpError = Bool(TRUE)

\* the envelope reports a failed outbound call to a caller that wants a throw
FailureToThrow ==
    UnwrappedEnvelope /\ Get(ClientEnvelope, "success") = Bool(FALSE) /\ ThrowOnHttpError

\* the raised message starts `External API error: <status>`
ExternalApiErrorRaised ==
    /\ outcome.kind = "raised"
    /\ outcome.message.t = "template"
    /\ Len(outcome.message.v) >= 2
    /\ outcome.message.v[1] = "External API error: "
    /\ outcome.message.v[2] = Str(ToString(Get(ClientEnvelope, "status").v))

\* the first of error, errors, message that data holds with a truthy value
DetailKeys == <<"error", "errors", "message">>
HasDetail(data) ==
    data.t = "obj" /\ \E i \in 1..3 : Truthy(Get(data, DetailKeys[i]))
FirstDetail(data) ==
    Get(data, DetailKeys[CHOOSE i \in 1..3 :
                            /\ Truthy(Get(data, DetailKeys[i]))
                            /\ \A j \in 1..(i - 1) : ~Truthy(Get(data, DetailKeys[j]))])

\* C11 as written: a failure envelope with throwOnHttpError raises
\* `External API error: <status>` and the message always goes on with
\* ` - <detail>`.
C11_DetailAlwaysFollows ==
    FailureToThrow
    => /\ ExternalApiErrorRaised
       /\ Len(outcome.message.v) = 4
       /\ outcome.message.v[3] = Str(" - ")

\* C11: a failure envelope with throwOnHttpError raises
\* `External API error: <status>`; ` - <detail>` follows exactly when data is
\* an object holding a truthy error, errors or message (the first of them
\* that is truthy), errors being a string, an array or an object; the detail
\* is that string, the array joined with `, `, or the object serialized.
C11_DetailWhenTruthy ==
    FailureToThrow
    => /\ ExternalApiErrorRaised
       /\ LET data == Get(ClientEnvelope, "data")
              m == outcome.message.v
          IN  IF HasDetail(data)
                 /\ (Truthy(Get(data, "error")) \/ ~Truthy(Get(data, "errors"))
                     \/ Get(data, "errors").t \notin {"num", "bool"})
              THEN /\ Len(m) = 4
                   /\ m[3] = Str(" - ")
                   /\ LET d == FirstDetail(data)
                      IN  CASE d.t \in {"str", "text", "template"} -> m[4] = d
                            [] d.t = "arr" ->
                                 m[4] = [t |-> "joined", sep |-> ", ", v |-> d.v]
                            [] d.t = "obj" /\ d = Get(data, "errors") ->
                                 m[4] = JSONstringify(d)
                            [] OTHER -> m[4].t \in {"str", "joined"}
              ELSE Len(m) = 2

\* an outbound 404 with body {"error":"a"} is raised as
\* `External API error: 404 - a`
C11_Witness ==
    /\ FailureToThrow
    /\ response.status = 404
    /\ responseText = <<"{", "\"", "e", "r", "r", "o", "r", "\"", ":", "\"", "a", "\"", "}">>
    /\ outcome.message =
         Template(<<"External API error: ", Str("404"), Str(" - "), Text(<<"a">>)>>)

\* C12: when the relay answers 2xx and the envelope says success, or says
\* failure to a caller that passed throwOnHttpError = false, proxyRequest
\* raises nothing and returns the data the relay put in the envelope.
C12_ReturnsEnvelopeData ==
    (/\ UnwrappedEnvelope
     /\ pc = "returned"
     /\ \/ Get(ClientEnvelope, "success") = Bool(TRUE)
        \/ Get(ClientEnvelope, "success") = Bool(FALSE) /\ ~ThrowOnHttpError)
    => /\ outcome.kind = "returned"
       /\ outcome.value = EnvelopeOf(result).data

\* a failed outbound call is handed to a caller that asked not to throw
C12_Witness ==
    /\ clientPc = "returned"
    /\ Invocation(clientCall).throwOnHttpError = Bool(FALSE)
    /\ response.status = 404
    /\ EnvelopeOf(result).success = Bool(FALSE)
    /\ outcome.value = EnvelopeOf(result).data
    /\ outcome.value = Obj([error |-> Text(<<"a">>)])

\* proxyRequest ended on an answer of the relay that is not 2xx
RelayErrorHandled ==
    /\ clientPc \in {"returned", "raised"}
    /\ relayResponse # NoRelayResponse
    /\ ~(relayResponse.status \in 200..299)

\* C13: an answer of the relay that is not 2xx is always raised, whatever
\* throwOnHttpError; the message is the `error` of the JSON body when the body
\* was read, is an object and holds a non-empty `error`, and
\* `Proxy error: <status>` in every other case.
C13_RelayErrorAlwaysRaised ==
    RelayErrorHandled
    => /\ outcome.kind = "raised"
       /\ LET body == relayResponse.body
          IN  IF /\ outcome.read
                 /\ body.t = "json"
                 /\ body.v.t = "obj"
                 /\ "error" \in DOMAIN body.v.v
                 /\ body.v.v.error \notin {Str(""), Null, Undefined}
              THEN outcome.message = body.v.v.error
              ELSE outcome.message =
                     Template(<<"Proxy error: ", ToString(relayResponse.status)>>)

\* the relay's 400 is raised with its own message to a caller that passed
\* throwOnHttpError = false
C13_Witness ==
    /\ RelayErrorHandled
    /\ Invocation(clientCall).throwOnHttpError = Bool(FALSE)
    /\ relayResponse.status = 400
    /\ outcome = Raised(MissingParametersMessage, TRUE)

\* C14: end to end, when the relay's outbound fetch fails at the network level
\* and the relay's answer reaches the browser, proxyRequest raises an error
\* whose message starts `Proxy error:`, whatever throwOnHttpError; it returns
\* no value.
C14_NetworkFailureRaisesProxyError ==
    (/\ clientPc \in {"returned", "raised"}
     /\ relayResponse # NoRelayResponse
     /\ error.at = "fetch")
    => /\ outcome.kind = "raised"
       /\ outcome.message.t = "template"
       /\ outcome.message.v[1] = "Proxy error: "

\* the outbound "fetch failed" reaches a caller that passed
\* throwOnHttpError = false as a raised `Proxy error: fetch failed`
C14_Witness ==
    /\ clientPc = "raised"
    /\ error = [at |-> "fetch", message |-> "fetch failed"]
    /\ Invocation(clientCall).throwOnHttpError = Bool(FALSE)
    /\ relayResponse.status = 500
    /\ outcome.message = Template(<<"Proxy error: ", "fetch failed">>)

\* the method a wrapper stands for
WrapperMethod ==
    [proxyGet |-> "GET", proxyPost |-> "POST", proxyPut |-> "PUT",
     proxyDelete |-> "DELETE"]

\* the call of proxyRequest that the spec equates a wrapper call with
AsProxyRequest(c) ==
    [c EXCEPT !.fn = "proxyRequest",
              !.method = Str(WrapperMethod[c.fn]),
              !.data = IF c.fn = "proxyGet" THEN Null ELSE c.data]

\* C19: a wrapper call runs proxyRequest with the wrapper's method and with
\* the other arguments as given (proxyGet with data null); every call, of a
\* wrapper or of proxyRequest, sends exactly one request, a POST to
\* /api/proxy whose body is the descriptor {endpoint, method, data, headers}.
C19_WrappersFixTheMethod ==
    /\ clientCall.fn \in DOMAIN WrapperMethod
       => /\ Invocation(clientCall) = Invocation(AsProxyRequest(clientCall))
          /\ Invocation(clientCall).method = Str(WrapperMethod[clientCall.fn])
          /\ Invocation(clientCall).throwOnHttpError
               = (IF clientCall.throwOnHttpError = Undefined
                  THEN Bool(TRUE) ELSE clientCall.throwOnHttpError)
    /\ clientPc = "called" => proxyFetches = <<>>
    /\ (clientPc # "called" /\ clientCall.fn \in DOMAIN WrapperMethod)
       => /\ Len(proxyFetches) = 1
          /\ proxyFetches[1].url = "/api/proxy"
          /\ proxyFetches[1].method = "POST"
          /\ proxyFetches[1].body =
               JSONstringify(Obj(
                 Field("endpoint", clientCall.endpoint)
                 @@ [method |-> Str(WrapperMethod[clientCall.fn]),
                     data |-> IF clientCall.fn = "proxyGet"
                                 \/ clientCall.data = Undefined
                              THEN Null ELSE clientCall.data,
                     headers |-> IF clientCall.headers = Undefined
                                 THEN Obj(EmptyProps) ELSE clientCall.headers]))
    /\ (clientPc # "called" /\ clientCall.fn = "proxyRequest")
       => /\ Len(proxyFetches) = 1
          /\ proxyFetches[1].url = "/api/proxy"
          /\ proxyFetches[1].method = "POST"

\* proxyDelete with data and headers has ended, having sent one POST
C19_Witness ==
    /\ clientCall.fn = "proxyDelete"
    /\ clientCall.data = Obj([title |-> Str("Case A")])
    /\ clientCall.headers # Undefined
    /\ clientPc \in {"returned", "raised"}
    /\ Len(proxyFetches) = 1
    /\ Get(proxyFetches[1].body.v, "method") = Str("DELETE")
    /\ Get(proxyFetches[1].body.v, "data") = clientCall.data

----------------------------------------------------------------------------
(* Further properties of the relay endpoint.                               *)

\* the action is past authenticate.admin without having got a session
AuthenticationFailed == pc # "authenticate" /\ session \notin Sessions

\* C15: when authenticate.admin fails, the failure leaves the action as an
\* exception: the inbound body is not read, nothing is caught, no outbound
\* call is made and no response (400, 200 or 500) is produced.
C15_AuthFailurePropagates ==
    AuthenticationFailed
    => /\ pc = "thrown"
       /\ result = Thrown("authenticate.admin")
       /\ requestBody = Undefined
       /\ enhancedData = Undefined
       /\ error = NoError
       /\ fetchCalls = <<>>
       /\ response = NoResponse

\* authentication failed for a POST that carried a complete descriptor
C15_Witness ==
    /\ AuthenticationFailed
    /\ request.method = "POST"
    /\ request.body.kind = "json"
    /\ Truthy(Get(request.body.value, "endpoint"))
    /\ Get(request.body.value, "method") = Str("POST")
    /\ result.kind = "thrown"

\* C17: the headers object handed to fetch is the default
\* {"Content-Type": "application/json"} overlaid with the caller's headers:
\* every caller header is there with the caller's value (a caller
\* "Content-Type" thereby replacing the default), the default is there when
\* the caller gave no "Content-Type", and nothing else is; with no caller
\* headers it is exactly the default.
C17_HeadersOverlayDefault ==
    fetchCalls # <<>> =>
        LET given == Get(request.body.value, "headers")
            sent == fetchCalls[1].options.headers.v
        IN  IF given.t = "obj"
            THEN /\ DOMAIN sent = DOMAIN given.v \cup {"Content-Type"}
                 /\ \A k \in DOMAIN given.v : sent[k] = given.v[k]
                 /\ "Content-Type" \notin DOMAIN given.v
                    => sent["Content-Type"] = Str("application/json")
            ELSE /\ given \in {Undefined, Null}
                 /\ DOMAIN sent = {"Content-Type"}
                 /\ sent["Content-Type"] = Str("application/json")

\* a caller-supplied Content-Type went out in place of the default
C17_Witness ==
    /\ fetchCalls # <<>>
    /\ Get(request.body.value, "headers") = Obj("Content-Type" :> Str("text/plain"))
    /\ fetchCalls[1].options.headers = Obj("Content-Type" :> Str("text/plain"))

\* the fetch was not refused: a request went out, or was tried over the network
OutboundCallIssued == fetchCalls # <<>> /\ ~FetchMustReject(fetchCalls[1])

\* C18: an outbound call is only ever issued with method GET, POST, PUT or
\* DELETE.
C18_OnlyFourMethodsGoOut ==
    OutboundCallIssued
    => fetchCalls[1].options.method \in {Str("GET"), Str("POST"), Str("PUT"), Str("DELETE")}

\* the order of the action's await points; both ways of ending come last
Rank ==
    ("authenticate" :> 1) @@ ("request.json" :> 2) @@ ("fetch" :> 3)
    @@ ("response.text" :> 4) @@ ("returned" :> 5) @@ ("thrown" :> 5)

\* C20: when every awaited step settles, every relay request ends, in a
\* returned response or in the exception of authenticate.admin; no step goes
\* back to an earlier await or repeats one.
C20_EveryRequestEnds ==
    /\ <>(pc \in {"returned", "thrown"})
    /\ [][Rank[pc'] > Rank[pc]]_pc

\* a request has ended after going through all four awaits
C20_Witness ==
    /\ pc = "returned"
    /\ session \in Sessions
    /\ requestBody # Undefined
    /\ Len(fetchCalls) = 1
    /\ response # NoResponse
    /\ responseText # <<>>
    /\ result.status = 200

\* the locals of the first invocation, as a record like peer
Own ==
    [pc |-> pc, request |-> request, session |-> session,
     requestBody |-> requestBody, enhancedData |-> enhancedData,
     fetchCalls |-> fetchCalls, response |-> response,
     responseText |-> responseText, error |-> error, result |-> result]

\* the answer an invocation gives when it runs alone with these inputs
AnswerAlone(inv) ==
    IF inv.request.method # "POST" THEN MethodNotAllowed
    ELSE IF inv.error # NoError THEN ProxyErrorResponse(inv.error)
    ELSE IF MissingParameters(inv.request.body.value) THEN MissingParametersResponse
    ELSE EnvelopeResponse(inv.response, inv.responseText)

\* the invocation made the call and gave the answer of a run on its own, and
\* what it sent as shopDomain and accessToken is its own session's
Independent(inv) ==
    /\ inv.fetchCalls # <<>>
       => /\ inv.fetchCalls = <<FetchCall(inv.request.body.value, inv.session)>>
          /\ inv.enhancedData.v.shopDomain = Str(inv.session.shop)
          /\ inv.enhancedData.v.accessToken = Str(inv.session.accessToken)
          /\ "body" \in DOMAIN inv.fetchCalls[1].options
             => /\ inv.fetchCalls[1].options.body.v.v.shopDomain = Str(inv.session.shop)
                /\ inv.fetchCalls[1].options.body.v.v.accessToken
                     = Str(inv.session.accessToken)
    /\ inv.pc = "returned" => inv.result = AnswerAlone(inv)
    /\ inv.pc = "thrown" => inv.result = Thrown("authenticate.admin")

\* C16: with two relay requests in flight and their steps interleaved in any
\* order, each one's outbound call and final response are those of a run on
\* its own, and the shopDomain and accessToken it sends are its own session's.
C16_ConcurrentRequestsIndependent ==
    Independent(Own) /\ Independent(peer)

\* both requests ended after each sent its own session's credentials, the two
\* sessions being different
C16_Witness ==
    /\ pc = "returned"
    /\ peer.pc = "returned"
    /\ session # peer.session
    /\ Len(fetchCalls) = 1
    /\ Len(peer.fetchCalls) = 1
    /\ fetchCalls[1].options.method = Str("POST")
    /\ peer.fetchCalls[1].options.method = Str("POST")
    /\ fetchCalls[1].options.body.v.v.shopDomain = Str(session.shop)
    /\ peer.fetchCalls[1].options.body.v.v.shopDomain = Str(peer.session.shop)
    /\ result.status = 200
    /\ peer.result.status = 200

----------------------------------------------------------------------------
(* Properties of the relay endpoint, continued.                            *)

\* the envelope was returned for a body that JSON.parse rejects
ReturnedUnparsed == ReturnedEnvelope /\ ~JSONparse(responseText).ok

\* C21 as written: every outbound body that does not parse is in
\* data.rawResponse in full.
C21_RawTextAlwaysComplete ==
    ReturnedUnparsed
    => /\ "rawResponse" \in DOMAIN EnvelopeOf(result).data.v
       /\ EnvelopeOf(result).data.v.rawResponse = Text(responseText)

\* C21: an outbound body that is not blank and does not parse is in
\* data.rawResponse unchanged when it has at most 1000 characters; of a
\* longer one the first 1000 characters are there; a blank one is answered
\* {message:"Empty response"} without rawResponse.
C21_RawTextUpToLimit ==
    ReturnedUnparsed
    => LET data == EnvelopeOf(result).data.v
       IN  IF Blank(responseText)
           THEN "rawResponse" \notin DOMAIN data
           ELSE /\ "rawResponse" \in DOMAIN data
                /\ Len(responseText) <= RawResponseLimit
                   => data.rawResponse = Text(responseText)
                /\ Len(responseText) > RawResponseLimit
                   => /\ data.rawResponse # Text(responseText)
                      /\ data.rawResponse = Text(SubSeq(responseText, 1, RawResponseLimit))

\* a body of exactly 1000 characters that does not parse came back whole
C21_Witness ==
    /\ ReturnedUnparsed
    /\ Len(responseText) = RawResponseLimit
    /\ EnvelopeOf(result).data.v.rawResponse = Text(responseText)

\* data without the two identity fields
WithoutIdentity(data) ==
    IF data.t = "obj"
    THEN Obj([k \in DOMAIN data.v \ {"shopDomain", "accessToken"} |-> data.v[k]])
    ELSE data

\* the relay request rb with the identity fields taken out of its data
SameButIdentity(rb) ==
    IF "data" \in DOMAIN rb.v
    THEN Obj([rb.v EXCEPT !["data"] = WithoutIdentity(rb.v["data"])])
    ELSE rb

\* C22: whatever shopDomain and accessToken the caller puts in data, the
\* payload of a fetch with a body carries the session's shop and access token,
\* and the whole call is the one made for the same request without those two
\* fields in data.
C22_IdentityIsTheSessions ==
    (fetchCalls # <<>> /\ "body" \in DOMAIN fetchCalls[1].options)
    => /\ fetchCalls[1].options.body.v.v.shopDomain = Str(session.shop)
       /\ fetchCalls[1].options.body.v.v.accessToken = Str(session.accessToken)
       /\ fetchCalls[1] = FetchCall(SameButIdentity(request.body.value), session)

\* a caller that forged both fields got the session's values sent
C22_Witness ==
    /\ fetchCalls # <<>>
    /\ fetchCalls[1].options.method = Str("POST")
    /\ Get(Get(request.body.value, "data"), "shopDomain") = Str("evil.myshopify.com")
    /\ Get(Get(request.body.value, "data"), "accessToken") = Str("shpat_forged")
    /\ fetchCalls[1].options.body.v.v.shopDomain = Str(session.shop)
    /\ fetchCalls[1].options.body.v.v.title = Str("Case B")
    /\ pc = "returned"

\* C26: a request whose method is not POST is answered 405 with
\* {success:false, error:"Method not allowed"} once authentication succeeded
\* (and not before); its body is never read, nothing is caught and no fetch is
\* made.
C26_NonPostIs405 ==
    request.method # "POST"
    => /\ pc \in {"authenticate", "thrown", "returned"}
       /\ requestBody = Undefined
       /\ error = NoError
       /\ fetchCalls = <<>>
       /\ (pc # "authenticate" /\ session \in Sessions)
          => /\ pc = "returned"
             /\ result.kind = "response"
             /\ result.status = 405
             /\ result.body =
                  Obj([success |-> Bool(FALSE), error |-> Str("Method not allowed")])
       /\ pc = "returned" => session \in Sessions

\* a DELETE that carried a complete descriptor was answered 405
C26_Witness ==
    /\ request.method = "DELETE"
    /\ request.body.kind = "json"
    /\ ~MissingParameters(request.body.value)
    /\ pc = "returned"
    /\ result.status = 405
    /\ fetchCalls = <<>>

----------------------------------------------------------------------------
(* Properties of db.server.                                                *)

\* C23: in every process, however often the module is evaluated, at most one
\* PrismaClient is constructed, and every evaluation exported the instance
\* global.prisma holds (so global.prisma has not changed since the first
\* evaluation set it).
C23_PrismaSingleton ==
    \A p \in Processes :
        /\ db[p].constructed <= 1
        /\ db[p].exports # <<>> =>
              /\ db[p].constructed = 1
              /\ db[p].prisma = PrismaClient(p, 1)
              /\ \A i \in 1..Len(db[p].exports) : db[p].exports[i] = db[p].prisma

\* a process evaluated the module three times and constructed one client
C23_Witness ==
    \E p \in Processes :
        /\ Len(db[p].exports) = 3
        /\ db[p].constructed = 1
        /\ db[p].exports[3] = db[p].exports[1]

----------------------------------------------------------------------------
(* Properties of the article-creation action.                              *)

ArticleAnswer == article.result.body.v

\* articleCreate returned an article and a later step did not succeed
FailedAfterCreate ==
    /\ article.pc = "returned"
    /\ article.newArticle # Undefined
    /\ article.error # NoError \/ ~Truthy(article.currentThemeId)

\* C24: once articleCreate returned an article, a failure of any later step
\* is answered 200 with success:true, the created article and a warning, and
\* not with `errors`.
C24_LaterFailuresAreWarnings ==
    FailedAfterCreate
    => /\ article.result.status = 200
       /\ "errors" \notin DOMAIN ArticleAnswer
       /\ Get(article.result.body, "success") = Bool(TRUE)
       /\ Get(article.result.body, "article") = article.newArticle
       /\ "warning" \in DOMAIN ArticleAnswer

\* the names of the remote calls, in the order of the source
RemoteCalls == <<"blogQuery", "articleCreate", "themes", "assetPut", "articleUpdate">>

\* the places at which the step that follows a call can fail
StepsOf ==
    [blogQuery |-> {"blogQuery", "blogQuery.json", "blogNode"},
     articleCreate |-> {"articleCreate", "articleCreate.json"},
     themes |-> {"themes", "themes.json", "themes[0].id"},
     assetPut |-> {"assetPut"},
     articleUpdate |-> {"articleUpdate"}]

CallNamed(name) ==
    article.calls[CHOOSE i \in 1..Len(article.calls) : article.calls[i].name = name]

Called(name) == \E i \in 1..Len(article.calls) : article.calls[i].name = name

\* C25: the remote calls are made in the order blog lookup, articleCreate,
\* main-theme fetch, template asset PUT, articleUpdate, each once and only
\* when every earlier one succeeded: a missing or blank title makes none (and
\* is answered 400), articleCreate needs the blog's id, the asset PUT needs
\* the created article and a main theme id, and a failed step is always the
\* one of the last call made.
C25_RemoteCallsInOrder ==
    /\ Len(article.calls) <= 5
    /\ \A i \in 1..Len(article.calls) : article.calls[i].name = RemoteCalls[i]
    /\ TitleMissing(article.title)
       => /\ article.calls = <<>>
          /\ article.pc = "returned" => article.result = TitleRequired
    /\ Called("articleCreate") => CallNamed("articleCreate").blogId = BlogId
    /\ Called("themes") <=> article.newArticle # Undefined
    /\ Called("assetPut")
       => /\ article.newArticle # Undefined
          /\ Truthy(article.currentThemeId)
          /\ CallNamed("assetPut").themeId = article.currentThemeId
    /\ ~Called("assetPut") => article.currentThemeId = Null
    /\ article.error # NoError
       => /\ article.calls # <<>>
          /\ article.error.at \in StepsOf[article.calls[Len(article.calls)].name]
          /\ article.pc = "returned"

\* all five calls were made and the article came back with its editor URL
C25_Witness ==
    /\ article.pc = "returned"
    /\ Len(article.calls) = 5
    /\ article.calls[5].name = "articleUpdate"
    /\ article.error = NoError
    /\ article.calls[2].input.v.handle = Text(<<"m", "y", "-", "p">>)
    /\ Get(article.result.body, "success") = Bool(TRUE)

----------------------------------------------------------------------------
(* Properties of the template-diagnostics action.                          *)

\* the template PUTs issued so far, in the order they were issued
TemplatePuts ==
    SelectSeq(diagnostics.calls, LAMBDA c : c.name = "templatePut")

\* the theme fetch failed: refused, unreadable, or without a usable theme
ThemeFetchFails ==
    \/ diagnostics.error.at \in {"themes", "themes.text", "themes.json", "mainTheme"}
    \/ diagnostics.themeStatus # 0 /\ ~ResponseOk(diagnostics.themeStatus)
    \/ diagnostics.themeJson # Undefined /\ NoThemes(diagnostics.themeJson)

\* the asset-permission test failed: refused or thrown
PermissionTestFails ==
    \/ diagnostics.error.at \in {"permissionPut", "permissionPut.text"}
    \/ diagnostics.permissionStatus # 0 /\ ~ResponseOk(diagnostics.permissionStatus)

\* the action got past the permission test and returned
DiagnosticsRan ==
    /\ diagnostics.pc = "returned"
    /\ ResponseOk(diagnostics.permissionStatus)

\* C27: when the theme fetch or the permission test fails no template PUT is
\* issued; otherwise the three formats are tried in the order JSON, Liquid,
\* Minimal JSON whatever the earlier attempts did, testResults has exactly
\* those three entries in that order, and the response's success is true
\* exactly when some entry's success is true.
C27_ThreeAttemptsInOrder ==
    /\ Len(TemplatePuts) <= Len(Formats)
    /\ \A i \in 1..Len(TemplatePuts) :
         /\ TemplatePuts[i].format = Formats[i]
         /\ TemplatePuts[i].themeId = Get(diagnostics.mainTheme, "id")
    /\ ThemeFetchFails \/ PermissionTestFails
       => /\ TemplatePuts = <<>>
          /\ diagnostics.testResults = <<>>
          /\ diagnostics.pc = "returned"
             => "testResults" \notin DOMAIN diagnostics.result.body.v
    /\ diagnostics.pc = "returned"
       => \/ ThemeFetchFails
          \/ PermissionTestFails
          \/ diagnostics.error.at = "authenticate"
          \/ DiagnosticsRan
    /\ DiagnosticsRan
       => /\ Len(TemplatePuts) = Len(Formats)
          /\ Len(diagnostics.testResults) = Len(Formats)
          /\ \A i \in 1..Len(Formats) :
               Get(diagnostics.testResults[i], "format") = Str(Formats[i])
          /\ diagnostics.result.status = 200
          /\ Get(diagnostics.result.body, "testResults") = Arr(diagnostics.testResults)
          /\ Get(diagnostics.result.body, "success")
               = Bool(\E i \in 1..Len(Formats) :
                        Get(diagnostics.testResults[i], "success") = Bool(TRUE))

\* the first attempt threw, the second was refused, the third succeeded
C27_Witness ==
    /\ DiagnosticsRan
    /\ "error" \in DOMAIN diagnostics.testResults[1].v
    /\ Get(diagnostics.testResults[2], "status") = Num(422)
    /\ Get(diagnostics.testResults[3], "success") = Bool(TRUE)
    /\ Get(diagnostics.result.body, "success") = Bool(TRUE)
    /\ Get(diagnostics.mainTheme, "id") = Num(8)

----------------------------------------------------------------------------
(* Properties of the blog-post form.                                       *)

\* a message the page shows: anything but the empty string
Shown(message) == message \notin {Str(""), Text(<<>>)}

\* a run of the handler h has completed and no other has started since
Completed(h) == form.pc = "idle" /\ form.handler = h

\* C28: after every run of handleFormSubmit isLoading is false again and
\* exactly one of successMessage and errorMessage is non-empty; the warning
\* and the template status are set only together with successMessage.
C28_OneMessagePerSubmit ==
    Completed("handleFormSubmit")
    => /\ form.isLoading = Bool(FALSE)
       /\ Shown(form.successMessage) # Shown(form.errorMessage)
       /\ ~Shown(form.successMessage)
          => ~Shown(form.warningMessage) /\ form.templateStatus = Null

\* the second run on the page: a submit that succeeded with a warning
C28_Witness ==
    /\ Completed("handleFormSubmit")
    /\ form.runs = 2
    /\ Shown(form.successMessage)
    /\ Shown(form.warningMessage)
    /\ Get(form.templateStatus, "success") = Bool(FALSE)
    /\ ~Shown(form.errorMessage)
    /\ response.status = 200

\* C29: the connection test reports success only when the external endpoint
\* answered the proxied GET with a 2xx status, and testingServer is false
\* again after every run.
C29_AvailableOnlyOn2xx ==
    Completed("testServerConnection")
    => /\ form.testingServer = Bool(FALSE)
       /\ Get(form.serverStatus, "success") = Bool(TRUE)
          => /\ pc = "returned"
             /\ error = NoError
             /\ ResponseOk(response.status)

----------------------------------------------------------------------------
(* Properties of the index loader.                                         *)

IndexAnswer(k) == Get(index.result.body, k)

\* what holds of the loader whatever the blog query's body carried: it throws
\* only when authentication does, always fetches the themes, never records a
\* theme failure, and `errors` is null exactly when the blog query went well
LoaderAlwaysAnswers ==
    /\ index.pc = "thrown" => index.calls = <<>>
    /\ index.pc \in {"themes", "themes.json", "themes.errorJson", "returned"}
       => index.calls = <<"blogQuery", "themes">>
    /\ index.pc = "returned"
       => /\ index.result.kind = "response"
          /\ index.result.status = 200
          /\ index.themeFailure # "" => IndexAnswer("themeId") = Null
          /\ IndexAnswer("errors") = Null <=> index.blogFailure = ""
          /\ IndexAnswer("errors") # Null
             => /\ IndexAnswer("errors").t = "arr"
                /\ Len(IndexAnswer("errors").v) > 0

\* C30 as stated: besides the above, every failure of the blog query comes
\* with articles = [].
C30_FailureLeavesNoArticles ==
    /\ LoaderAlwaysAnswers
    /\ index.pc = "returned" /\ index.blogFailure # ""
       => IndexAnswer("articles") = Arr(<<>>)

\* C30, amended: a blog query that threw (rejected, refused, unreadable, or
\* with a body of the wrong shape) comes with articles = []; GraphQL errors
\* reported next to data are recorded in `errors` and the articles of that
\* data are returned all the same.
C30_ThrownFailureLeavesNoArticles ==
    /\ LoaderAlwaysAnswers
    /\ index.pc = "returned" /\ index.blogFailure \notin {"", "GraphQL"}
       => IndexAnswer("articles") = Arr(<<>>)
    /\ index.pc = "returned" /\ index.blogFailure = "GraphQL"
       => /\ IndexAnswer("blogData")
               = OrElse(BlogNode(index.blogResponseJson).val, Null)
          /\ IndexAnswer("articles") = ArticlesOf(IndexAnswer("blogData")).val

\* GraphQL errors came with an article; the theme fetch was refused
C30_Witness ==
    /\ index.pc = "returned"
    /\ index.blogFailure = "GraphQL"
    /\ IndexAnswer("errors") = Arr(<<Obj([message |->
                                   Template(<<"GraphQL error: ", Str("Throttled")>>)])>>)
    /\ IndexAnswer("articles") = Arr(<<ArticleNode(1)>>)
    /\ index.themeStatus = 503
    /\ IndexAnswer("themeId") = Null

====
